---------------------------- MODULE Spec2Model ----------------------------
(***************************************************************************)
(* A model of the repository-quality analytics package:                    *)
(*   analytics/metrics.py  - the normalizer, the datetime parser and the   *)
(*                           four metric computers                         *)
(*   analytics/trends.py   - moving average, linear regression, the commit *)
(*                           / issue trend functions, the weekly summary   *)
(*                           and the health indicator                      *)
(*   analytics/scoring.py  - weighted score, grade, weight adjustment and  *)
(*                           improvement potential                         *)
(*   analytics/utils.py    - the GitHub client (_request, _paginate,       *)
(*                           fetch_repository) and analyze_repository      *)
(*                                                                         *)
(* Numbers.  Python floats are modelled as exact rationals <<n, d>> kept   *)
(* in lowest terms with d > 0, so that equal numbers are equal values.     *)
(* round(x, k) is modelled as rounding of the exact rational to k decimals *)
(* with ties to even.                                                      *)
(*                                                                         *)
(* Time.  An instant is a whole number of ticks, TicksPerDay ticks to a    *)
(* calendar day; a datetime is [aware, t, off]: aware tells whether it     *)
(* carries a UTC offset, t is the instant and t + off its wall clock.      *)
(***************************************************************************)
EXTENDS Integers, Sequences, FiniteSets, TLC

VARIABLES
    op,       \* the library function called last ("idle" between calls)
    arg,      \* its arguments
    res,      \* what it returned, or [raised |-> <exception>]
    pc,       \* analyze_repository: the statement it is at
    repo_url, \* analyze_repository: the URL it was given
    server,   \* what the GitHub repository holds
    data,     \* the RepositoryData being filled by fetch_repository
    failed,   \* the collections one of whose requests ended in an error
    invoked,  \* the metric / trend / scoring functions called so far
    outcome,  \* what analyze_repository returned
    heap,     \* the mapping objects: the module's DEFAULT_WEIGHTS, the caller's
              \* scores and weights, and the object the last call created
    frame     \* the scoring call made last: its arguments as they were handed
              \* over and the object it returned

vars == <<op, arg, res, pc, repo_url, server, data, failed, invoked, outcome, heap, frame>>
pureVars == <<op, arg, res>>
analyzeVars == <<pc, repo_url, server, data, failed, invoked, outcome>>
heapVars == <<heap, frame>>

-----------------------------------------------------------------------------
(* Bounds of the model *)

\* longest list of records handed to a metric or trend function
MaxLen == 3
\* ticks in a calendar day (the resolution of the model's clock)
TicksPerDay == 2
\* entries in a scores mapping
MaxScores == 2
\* points of the long series handed to the linear regression
MaxPoints == 10
\* longest list of values handed to the moving average
MaxValues == 5
\* items on a full page (per_page, 100 in GitHubConfig)
PerPage == 2
\* most items a collection is fetched up to (max_count, 200 in fetch_commits,
\* fetch_issues and fetch_pull_requests)
MaxItems == 4
\* most contributors fetched (max_count, 50 in fetch_contributors: less than
\* a page)
MaxContributors == 1

-----------------------------------------------------------------------------
(* Exact rational arithmetic *)

RECURSIVE Gcd(_, _)
Gcd(a, b) == IF b = 0 THEN a ELSE Gcd(b, a % b)

Abs(n) == IF n < 0 THEN -n ELSE n

\* the rational n/d in lowest terms with a positive denominator (d # 0)
R(n, d) ==
    LET g == Gcd(Abs(n), Abs(d))
        s == IF d < 0 THEN -1 ELSE 1
    IN  <<(s * n) \div g, (s * d) \div g>>

Num(n) == <<n, 1>>
\* sums and comparisons over the least common denominator
RAdd(a, b) ==
    IF b[1] = 0 THEN a
    ELSE IF a[1] = 0 THEN b
    ELSE LET g == Gcd(a[2], b[2])
         IN  R(a[1] * (b[2] \div g) + b[1] * (a[2] \div g), (a[2] \div g) * b[2])
RSub(a, b) == RAdd(a, <<-b[1], b[2]>>)
\* the product, cancelling across before multiplying
RMul(a, b) ==
    LET g1 == Gcd(Abs(a[1]), b[2])
        g2 == Gcd(Abs(b[1]), a[2])
    IN  R((a[1] \div g1) * (b[1] \div g2), (a[2] \div g2) * (b[2] \div g1))
RDiv(a, b) == RMul(a, R(b[2], b[1]))
RLt(a, b) ==
    LET g == Gcd(a[2], b[2])
    IN  a[1] * (b[2] \div g) < b[1] * (a[2] \div g)
RLe(a, b) == ~RLt(b, a)
RMin(a, b) == IF RLe(a, b) THEN a ELSE b
RMax(a, b) == IF RLe(b, a) THEN a ELSE b

RECURSIVE Pow10(_)
Pow10(k) == IF k = 0 THEN 1 ELSE 10 * Pow10(k - 1)

\* floor(n * 10^k / d) and what is left over, by long division (d > 0)
RECURSIVE LongDivision(_, _, _, _)
LongDivision(q, r, d, k) ==
    IF k = 0 \/ r = 0 THEN [q |-> q * Pow10(k), r |-> r]
    ELSE LongDivision(q * 10 + (r * 10) \div d, (r * 10) % d, d, k - 1)

ScaledFloor(n, d, k) == LongDivision(n \div d, n % d, d, k)

\* the integer nearest to n * 10^k / d, a tie going to the even neighbour
RoundHalfEven(n, d, k) ==
    LET f == ScaledFloor(n, d, k)
    IN  IF 2 * f.r < d THEN f.q
        ELSE IF 2 * f.r > d THEN f.q + 1
        ELSE IF f.q % 2 = 0 THEN f.q ELSE f.q + 1

\* Python's round(x, k)
Round(x, k) == R(RoundHalfEven(x[1], x[2], k), Pow10(k))

RECURSIVE IsPowerOfTwo(_)
IsPowerOfTwo(d) == d = 1 \/ (d % 2 = 0 /\ IsPowerOfTwo(d \div 2))

\* round(x, k) of a float that was computed: a value that lies exactly half
\* way between two neighbours and has no binary representation reaches
\* round() as a float on either side of the half, so both neighbours can come
\* out
RoundOutcomes(x, k) ==
    LET f == ScaledFloor(x[1], x[2], k)
    IN  IF 2 * f.r = x[2] /\ ~IsPowerOfTwo(x[2])
        THEN {R(f.q, Pow10(k)), R(f.q + 1, Pow10(k))}
        ELSE {Round(x, k)}

\* sum(s): the first n elements added from the left
RECURSIVE RSumTo(_, _)
RSumTo(s, n) == IF n = 0 THEN Num(0) ELSE RAdd(RSumTo(s, n - 1), s[n])

RSum(s) == RSumTo(s, Len(s))

-----------------------------------------------------------------------------
(* metrics.py: the normalizer *)

\* the clamp of line 34 dropped: the value is scaled but not cut to [0, 1]
NormalizeNoClamp(value, min_val, max_val, inverse) ==
    IF max_val = min_val THEN Num(50)
    ELSE LET normalized == RDiv(RSub(value, min_val), RSub(max_val, min_val))
             directed == IF inverse THEN RSub(Num(1), normalized) ELSE normalized
         IN  Round(RMul(directed, Num(100)), 2)

\* the inversion of lines 36-37 dropped
NormalizeNeverInverted(value, min_val, max_val, inverse) ==
    IF max_val = min_val THEN Num(50)
    ELSE LET normalized == RDiv(RSub(value, min_val), RSub(max_val, min_val))
             clamped == RMax(Num(0), RMin(Num(1), normalized))
         IN  Round(RMul(clamped, Num(100)), 2)

_normalize_score(value, min_val, max_val, inverse) ==
    IF max_val = min_val THEN Num(50)
    ELSE LET normalized == RDiv(RSub(value, min_val), RSub(max_val, min_val))
             clamped == RMax(Num(0), RMin(Num(1), normalized))
             directed == IF inverse THEN RSub(Num(1), clamped) ELSE clamped
         IN  Round(RMul(directed, Num(100)), 2)

-----------------------------------------------------------------------------
(* metrics.py / trends.py: the datetime parser *)

\* A field of a JSON record: missing, null, or a string that is an ISO
\* timestamp with a Z suffix or a UTC offset, an ISO timestamp or date
\* without one, or no timestamp at all.
Absent == [k |-> "absent", t |-> 0]
Null == [k |-> "null", t |-> 0]
IsoZ(t) == [k |-> "iso_z", t |-> t]
IsoNaive(t) == [k |-> "iso_naive", t |-> t]
\* an ISO timestamp with a UTC offset of off ticks: t is the instant, the
\* wall clock it spells out reads t + off
IsoOffset(t, off) == [k |-> "iso_offset", t |-> t, off |-> off]
Garbage == [k |-> "garbage", t |-> 0]

\* every field taken for a date, a missing or null one included
TruthyAlways(v) == TRUE

\* Python truthiness of a field read with .get(): None is falsy, every
\* string of the model is non-empty
Truthy(v) == v.k \notin {"absent", "null"}

\* now: the reading of the local clock (datetime.now(), which is naive)
_parse_datetime(date_str, now) ==
    CASE date_str.k = "iso_z" -> [aware |-> TRUE, t |-> date_str.t, off |-> 0]
      [] date_str.k = "iso_offset" ->
            [aware |-> TRUE, t |-> date_str.t, off |-> date_str.off]
      [] date_str.k = "iso_naive" -> [aware |-> FALSE, t |-> date_str.t, off |-> 0]
      [] OTHER -> [aware |-> FALSE, t |-> now, off |-> 0]

\* comparing or subtracting an offset-aware and a naive datetime raises
\* TypeError; list.sort() on two or more datetimes compares across the two
\* kinds as soon as both occur
MixedKinds(dates) ==
    \E i, j \in 1..Len(dates) : dates[i].aware # dates[j].aware

RECURSIVE InsertDate(_, _)
InsertDate(sorted, d) ==
    IF sorted = <<>> THEN <<d>>
    ELSE IF d.t < sorted[1].t THEN <<d>> \o sorted
    ELSE <<sorted[1]>> \o InsertDate(Tail(sorted), d)

\* dates.sort(): ascending, stable
RECURSIVE SortDates(_)
SortDates(dates) ==
    IF dates = <<>> THEN <<>>
    ELSE InsertDate(SortDates(SubSeq(dates, 1, Len(dates) - 1)), dates[Len(dates)])

\* a started day counted as a whole one
DaysRoundedUp(ticks) == (ticks + TicksPerDay - 1) \div TicksPerDay

\* timedelta.days of a non-negative difference
Days(ticks) == ticks \div TicksPerDay

-----------------------------------------------------------------------------
(* metrics.py: compute_commit_frequency *)

\* A commit record.  shape tells where (and whether) it carries a date:
\*   nondict        not a dict at all
\*   nested         {"commit": {"author": {"date": d}}}
\*   author_absent  {"commit": {}}
\*   author_null    {"commit": {"author": null}}
\*   flat_date      {"date": d}
\*   flat_created   {"created_at": d}
\*   no_date        a dict with none of the three keys
Commit(shape, d) == [shape |-> shape, date |-> d]

\* lines 92-102 (trends.py 206-214): the date of one record, or the
\* exception its lookup raises
CommitDate(commit) ==
    CASE commit.shape = "nested" -> [raised |-> "none", date |-> commit.date]
      [] commit.shape = "author_null" -> [raised |-> "AttributeError", date |-> Null]
      [] commit.shape \in {"flat_date", "flat_created"} ->
            [raised |-> "none", date |-> commit.date]
      [] OTHER -> [raised |-> "none", date |-> Null]

\* lines 90-105: the loop collecting the parsed dates of the truthy ones
RECURSIVE ExtractDates(_, _)
ExtractDates(commits, now) ==
    IF commits = <<>> THEN [raised |-> "none", dates |-> <<>>]
    ELSE LET head == CommitDate(commits[1])
         IN  IF head.raised # "none" THEN [raised |-> head.raised, dates |-> <<>>]
             ELSE LET rest == ExtractDates(Tail(commits), now)
                  IN  IF rest.raised # "none" THEN rest
                      ELSE IF Truthy(head.date)
                           THEN [raised |-> "none",
                                 dates |-> <<_parse_datetime(head.date, now)>> \o rest.dates]
                           ELSE rest

compute_commit_frequency(commits, now) ==
    IF commits = <<>> THEN [raw |-> Num(0), score |-> Num(0), total_commits |-> 0]
    ELSE LET ex == ExtractDates(commits, now)
             dates == ex.dates
         IN  IF ex.raised # "none" THEN [raised |-> ex.raised]
             ELSE IF Len(dates) < 2
                  THEN [raw |-> Num(1), score |-> Num(25), total_commits |-> Len(commits)]
             ELSE IF MixedKinds(dates) THEN [raised |-> "TypeError"]
             ELSE LET sorted == SortDates(dates)
                      span == Days(sorted[Len(sorted)].t - sorted[1].t)
                      time_span == IF span = 0 THEN 1 ELSE span
                      frequency == R(Len(commits), time_span)
                  IN  [raw |-> Round(frequency, 4),
                       score |-> _normalize_score(frequency, Num(0), Num(5), FALSE),
                       total_commits |-> Len(commits),
                       time_span_days |-> time_span]

-----------------------------------------------------------------------------
(* metrics.py: compute_issue_resolution *)

\* str.lower() on the state strings of the model
Lower(state) == IF state = "CLOSED" THEN "closed" ELSE state

\* An issue record: not a dict, or a dict whose 'state' is missing
\* ("absent"), null ("null") or a string, with its two timestamp fields.
Issue(shape, state, created_at, closed_at) ==
    [shape |-> shape, state |-> state, created_at |-> created_at, closed_at |-> closed_at]

\* lines 153-170 for one issue: skipped, an exception, or the resolution
\* time in ticks together with the parsed closing date
IssueResolution(issue, now) ==
    IF issue.shape # "dict" THEN [kind |-> "skip"]
    ELSE IF issue.state = "null" THEN [kind |-> "AttributeError"]
    ELSE IF Lower(IF issue.state = "absent" THEN "" ELSE issue.state) # "closed"
         THEN [kind |-> "skip"]
    ELSE IF ~(Truthy(issue.created_at) /\ Truthy(issue.closed_at)) THEN [kind |-> "skip"]
    ELSE LET created == _parse_datetime(issue.created_at, now)
             closed == _parse_datetime(issue.closed_at, now)
         IN  IF created.aware # closed.aware THEN [kind |-> "TypeError"]
             ELSE [kind |-> "resolved", ticks |-> closed.t - created.t, closed |-> closed]

\* the negative clamp of line 170 dropped
ResolutionDaysNoClamp(ticks) == R(ticks, TicksPerDay)

\* max(0, (closed - created).total_seconds() / (24 * 3600))
ResolutionDays(ticks) == RMax(Num(0), R(ticks, TicksPerDay))

\* the loop of lines 153-170: resolution_times, or the first exception
RECURSIVE ResolutionTimes(_, _)
ResolutionTimes(issues, now) ==
    IF issues = <<>> THEN [raised |-> "none", times |-> <<>>]
    ELSE LET head == IssueResolution(issues[1], now)
         IN  IF head.kind \in {"AttributeError", "TypeError"}
             THEN [raised |-> head.kind, times |-> <<>>]
             ELSE LET rest == ResolutionTimes(Tail(issues), now)
                  IN  IF rest.raised # "none" THEN rest
                      ELSE IF head.kind = "resolved"
                           THEN [raised |-> "none",
                                 times |-> <<ResolutionDays(head.ticks)>> \o rest.times]
                           ELSE rest

compute_issue_resolution(issues, now) ==
    IF issues = <<>>
    THEN [raw |-> Num(0), score |-> Num(50), resolved_count |-> 0, total_issues |-> 0]
    ELSE LET rt == ResolutionTimes(issues, now)
             resolution_times == rt.times
         IN  IF rt.raised # "none" THEN [raised |-> rt.raised]
             ELSE IF resolution_times = <<>>
                  THEN [raw |-> Num(0), score |-> Num(50), resolved_count |-> 0,
                        total_issues |-> Len(issues)]
             ELSE LET avg_resolution ==
                          RDiv(RSum(resolution_times), Num(Len(resolution_times)))
                  IN  [raw |-> Round(avg_resolution, 2),
                       score |-> _normalize_score(avg_resolution, Num(0), Num(30), TRUE),
                       resolved_count |-> Len(resolution_times),
                       total_issues |-> Len(issues)]

-----------------------------------------------------------------------------
(* metrics.py: compute_pr_rejection *)

\* A pull-request record: state as for an issue; merged is the 'merged'
\* flag ("absent", "true" or "false"); merged_at is a field.
PR(shape, state, merged, merged_at) ==
    [shape |-> shape, state |-> state, merged |-> merged, merged_at |-> merged_at]

\* the branches of lines 231-237 taken in another order: merged before open
PRClassMergedFirst(pr) ==
    IF pr.shape # "dict" THEN "skip"
    ELSE IF pr.state = "null" THEN "AttributeError"
    ELSE LET state == Lower(IF pr.state = "absent" THEN "" ELSE pr.state)
             merged == pr.merged = "true" \/ pr.merged_at.k \notin {"absent", "null"}
         IN  IF merged THEN "merged"
             ELSE IF state = "open" THEN "open"
             ELSE IF state = "closed" THEN "rejected"
             ELSE "other"

\* lines 225-237 for one record: "skip", "AttributeError", "open",
\* "merged", "rejected" or "other" (a dict counted in no class)
PRClass(pr) ==
    IF pr.shape # "dict" THEN "skip"
    ELSE IF pr.state = "null" THEN "AttributeError"
    ELSE LET state == Lower(IF pr.state = "absent" THEN "" ELSE pr.state)
             merged == pr.merged = "true" \/ pr.merged_at.k \notin {"absent", "null"}
         IN  IF state = "open" THEN "open"
             ELSE IF merged THEN "merged"
             ELSE IF state = "closed" THEN "rejected"
             ELSE "other"

RECURSIVE CountClass(_, _)
CountClass(prs, class) ==
    IF prs = <<>> THEN 0
    ELSE (IF PRClass(prs[1]) = class THEN 1 ELSE 0) + CountClass(Tail(prs), class)

compute_pr_rejection(prs) ==
    IF prs = <<>>
    THEN [raw |-> Num(0), score |-> Num(50), rejected |-> 0, merged |-> 0, total |-> 0]
    ELSE IF CountClass(prs, "AttributeError") > 0 THEN [raised |-> "AttributeError"]
    ELSE LET merged_count == CountClass(prs, "merged")
             rejected_count == CountClass(prs, "rejected")
             open_count == CountClass(prs, "open")
             total_closed == merged_count + rejected_count
         IN  IF total_closed = 0
             THEN [raw |-> Num(0), score |-> Num(50), rejected |-> 0, merged |-> 0,
                   open |-> open_count, total |-> Len(prs)]
             ELSE LET rejection_rate == R(rejected_count, total_closed)
                  IN  [raw |-> Round(rejection_rate, 4),
                       score |-> _normalize_score(rejection_rate, Num(0), R(1, 2), TRUE),
                       rejected |-> rejected_count,
                       merged |-> merged_count,
                       open |-> open_count,
                       total |-> Len(prs)]

-----------------------------------------------------------------------------
(* metrics.py: compute_test_ratio *)

\* A path is the sequence of its characters.
UpperCase == <<"A", "B", "C", "D", "E", "F", "G", "H", "I", "J", "K", "L", "M",
               "N", "O", "P", "Q", "R", "S", "T", "U", "V", "W", "X", "Y", "Z">>
LowerCase == <<"a", "b", "c", "d", "e", "f", "g", "h", "i", "j", "k", "l", "m",
               "n", "o", "p", "q", "r", "s", "t", "u", "v", "w", "x", "y", "z">>

\* the lower-case letter of each upper-case one
ToLower == [i \in 1..26 |-> <<UpperCase[i], LowerCase[i]>>]

RECURSIVE LowerFrom(_, _)
LowerFrom(c, i) ==
    IF i > 26 THEN c
    ELSE IF ToLower[i][1] = c THEN ToLower[i][2]
    ELSE LowerFrom(c, i + 1)

LowerChar(c) == LowerFrom(c, 1)

\* str.lower()
RECURSIVE LowerStr(_)
LowerStr(s) ==
    IF s = <<>> THEN <<>> ELSE <<LowerChar(s[1])>> \o LowerStr(Tail(s))

\* str.endswith(suffix)
EndsWith(s, suffix) ==
    /\ Len(s) >= Len(suffix)
    /\ SubSeq(s, Len(s) - Len(suffix) + 1, Len(s)) = suffix

\* the literal lit stands in s at position i
MatchAt(s, i, lit) ==
    /\ i + Len(lit) - 1 <= Len(s)
    /\ SubSeq(s, i, i + Len(lit) - 1) = lit

Contains(s, lit) == \E i \in 1..Len(s) : MatchAt(s, i, lit)

\* lines 325-329
code_extensions ==
    { <<".", "p", "y">>,
      <<".", "j", "s">>,
      <<".", "t", "s">>,
      <<".", "j", "s", "x">>,
      <<".", "t", "s", "x">>,
      <<".", "j", "a", "v", "a">>,
      <<".", "k", "t">>,
      <<".", "g", "o">>,
      <<".", "r", "b">>,
      <<".", "r", "s">>,
      <<".", "c">>,
      <<".", "c", "p", "p">>,
      <<".", "h">>,
      <<".", "h", "p", "p">>,
      <<".", "c", "s">>,
      <<".", "p", "h", "p">>,
      <<".", "s", "w", "i", "f", "t">>,
      <<".", "s", "c", "a", "l", "a">>,
      <<".", "c", "l", "j">>,
      <<".", "e", "x">>,
      <<".", "e", "x", "s">>,
      <<".", "v", "u", "e">>,
      <<".", "s", "v", "e", "l", "t", "e">> }

\* line 332
has_code_extension(file_path) ==
    LET lowered == LowerStr(file_path)
    IN  \E ext \in code_extensions : EndsWith(lowered, ext)

\* lines 294-309 and 338: test_regex.search(file_path), the eleven patterns
\* joined by |, compiled with re.IGNORECASE (search: a match may start
\* anywhere in the path)
test_regex_search(file_path) ==
    LET p == LowerStr(file_path)
    IN  \/ \E i \in 1..Len(p) :                      \* test_.*\.py$
              /\ MatchAt(p, i, <<"t", "e", "s", "t", "_">>)
              /\ EndsWith(SubSeq(p, i + 5, Len(p)), <<".", "p", "y">>)
        \/ EndsWith(p, <<"_", "t", "e", "s", "t", ".", "p", "y">>)                    \* .*_test\.py$
        \/ EndsWith(p, <<"_", "s", "p", "e", "c", ".", "p", "y">>)                    \* .*_spec\.py$
        \/ \E e \in {<<"j", "s">>, <<"t", "s">>, <<"j", "s", "x">>, <<"t", "s", "x">>} :     \* .*\.test\.[jt]sx?$
              EndsWith(p, <<".", "t", "e", "s", "t", ".">> \o e)
        \/ \E e \in {<<"j", "s">>, <<"t", "s">>, <<"j", "s", "x">>, <<"t", "s", "x">>} :     \* .*\.spec\.[jt]sx?$
              EndsWith(p, <<".", "s", "p", "e", "c", ".">> \o e)
        \/ Contains(p, <<"t", "e", "s", "t", "s", "/">>)                \* tests?/.*
        \/ Contains(p, <<"t", "e", "s", "t", "/">>)
        \/ Contains(p, <<"_", "_", "t", "e", "s", "t", "s", "_", "_", "/">>)               \* __tests__/.*
        \/ EndsWith(p, <<"t", "e", "s", "t", ".", "j", "a", "v", "a">>)                  \* .*Test\.(java|kt)$
        \/ EndsWith(p, <<"t", "e", "s", "t", ".", "k", "t">>)
        \/ EndsWith(p, <<"_", "t", "e", "s", "t", ".", "g", "o">>)                    \* .*_test\.go$
        \/ EndsWith(p, <<"_", "t", "e", "s", "t", ".", "r", "b">>)                    \* .*_test\.rb$
        \/ EndsWith(p, <<"_", "s", "p", "e", "c", ".", "r", "b">>)                    \* .*_spec\.rb$

\* A file entry: a path string, or a dict giving the path under 'path' or
\* 'name' (shape "dict_none": a dict with neither key, or with a null path).
FileEntry(shape, path) == [shape |-> shape, path |-> path]

\* lines 316-319
FilePath(file_entry) ==
    IF file_entry.shape = "dict_none" THEN <<>> ELSE file_entry.path

\* the loop of lines 314-339 without the extension check of line 334
RECURSIVE CountFilesAnyExtension(_, _)
CountFilesAnyExtension(files, tests_only) ==
    IF files = <<>> THEN 0
    ELSE LET file_path == FilePath(files[1])
             counted == /\ file_path # <<>>
                        /\ (tests_only => test_regex_search(file_path))
         IN  (IF counted THEN 1 ELSE 0) + CountFilesAnyExtension(Tail(files), tests_only)

\* the loop of lines 314-339: the code files, or the test files among them
RECURSIVE CountFiles(_, _)
CountFiles(files, tests_only) ==
    IF files = <<>> THEN 0
    ELSE LET file_path == FilePath(files[1])
             counted == /\ file_path # <<>>
                        /\ has_code_extension(file_path)
                        /\ (tests_only => test_regex_search(file_path))
         IN  (IF counted THEN 1 ELSE 0) + CountFiles(Tail(files), tests_only)

compute_test_ratio(files) ==
    LET total_file_count == CountFiles(files, FALSE)
        test_file_count == CountFiles(files, TRUE)
    IN  IF files = <<>> \/ total_file_count = 0
        THEN [raw |-> Num(0), score |-> Num(0), test_files |-> 0, total_files |-> 0]
        ELSE LET test_ratio == R(test_file_count, total_file_count)
             IN  [raw |-> Round(test_ratio, 4),
                  score |-> _normalize_score(test_ratio, Num(0), R(3, 10), FALSE),
                  test_files |-> test_file_count,
                  total_files |-> total_file_count]

-----------------------------------------------------------------------------
(* trends.py: moving average, linear regression, classification *)

Min(a, b) == IF a <= b THEN a ELSE b

\* the running means cumsum / (i + 1) of the first n values
Cumulative(values, n) ==
    [i \in 1..n |-> RDiv(RSum(SubSeq(values, 1, i)), Num(i))]

\* lines 69 and 73: the sum of the window that ends at position i
RECURSIVE WindowSum(_, _, _)
WindowSum(values, window, i) ==
    IF i = window THEN RSum(SubSeq(values, 1, window))
    ELSE RAdd(RSub(WindowSum(values, window, i - 1), values[i - window]), values[i])

\* lines 77-83 dropped: the averages of the full windows only
MovingAverageFullWindows(values, window) ==
    IF values = <<>> \/ window <= 0 THEN <<>>
    ELSE IF Len(values) < window THEN Cumulative(values, Len(values))
    ELSE [j \in 1..(Len(values) - window + 1) |->
             RDiv(WindowSum(values, window, window + j - 1), Num(window))]

\* None where a float is expected: no rational has the denominator 0
NoValue == <<0, 0>>

_calculate_moving_average(values, window) ==
    IF values = <<>> \/ window <= 0 THEN <<>>
    ELSE IF Len(values) < window THEN Cumulative(values, Len(values))
    ELSE LET result == [j \in 1..(Len(values) - window + 1) |->
                           RDiv(WindowSum(values, window, window + j - 1), Num(window))]
             prefix == Cumulative(values, Min(window - 1, Len(values)))
         IN  prefix \o result

Sq(a) == RMul(a, a)

\* lines 111-123: slope, intercept and r_squared from the means and the sums
\* of squares, before they are rounded
\* line 115 without the division: the covariance taken for the slope
FitFromCovariance(mean_x, mean_y, ss_xx, ss_yy, ss_xy) ==
    [slope |-> IF ss_xx = Num(0) THEN Num(0) ELSE ss_xy,
     intercept |-> IF ss_xx = Num(0) THEN mean_y ELSE RSub(mean_y, RMul(ss_xy, mean_x)),
     r_squared |-> IF ss_yy = Num(0)
                   THEN (IF ss_xy = Num(0) THEN Num(1) ELSE Num(0))
                   ELSE IF RLt(Num(0), ss_xx)
                        THEN RDiv(Sq(ss_xy), RMul(ss_xx, ss_yy))
                        ELSE Num(0)]

FitFrom(mean_x, mean_y, ss_xx, ss_yy, ss_xy) ==
    [slope |-> IF ss_xx = Num(0) THEN Num(0) ELSE RDiv(ss_xy, ss_xx),
     intercept |-> IF ss_xx = Num(0) THEN mean_y
                   ELSE RSub(mean_y, RMul(RDiv(ss_xy, ss_xx), mean_x)),
     r_squared |-> IF ss_yy = Num(0)
                   THEN (IF ss_xy = Num(0) THEN Num(1) ELSE Num(0))
                   ELSE IF RLt(Num(0), ss_xx)
                        THEN RDiv(Sq(ss_xy), RMul(ss_xx, ss_yy))
                        ELSE Num(0)]

\* lines 106-109: the sums of squares about the means
FitAbout(x, y, mean_x, mean_y) ==
    FitFrom(mean_x, mean_y,
            RSum([i \in 1..Len(x) |-> Sq(RSub(x[i], mean_x))]),
            RSum([i \in 1..Len(x) |-> Sq(RSub(y[i], mean_y))]),
            RSum([i \in 1..Len(x) |-> RMul(RSub(x[i], mean_x), RSub(y[i], mean_y))]))

\* slope, intercept and r_squared before they are rounded (n >= 2)
LeastSquares(x, y) ==
    FitAbout(x, y, RDiv(RSum(x), Num(Len(x))), RDiv(RSum(y), Num(Len(x))))

\* lines 125-129, every rounded value decided by its exact value
Rounded(fit) ==
    [slope |-> Round(fit.slope, 6),
     intercept |-> Round(fit.intercept, 4),
     r_squared |-> Round(fit.r_squared, 4)]

\* lines 125-129, with the outcomes the float arithmetic can give
RoundedOutcomes(fit) ==
    {[slope |-> s, intercept |-> i, r_squared |-> r] :
        s \in RoundOutcomes(fit.slope, 6),
        i \in RoundOutcomes(fit.intercept, 4),
        r \in RoundOutcomes(fit.r_squared, 4)}

\* the result when every rounded value is decided by its exact value
_calculate_linear_regression(x, y) ==
    IF Len(x) < 2 THEN [slope |-> Num(0), intercept |-> Num(0), r_squared |-> Num(0)]
    ELSE Rounded(LeastSquares(x, y))

\* lines 102-108 in floats: the mean of three or more equal values that are
\* no binary fractions need not be that value again, and then ss_yy is not 0
InexactMean(y) ==
    /\ Len(y) >= 3
    /\ \A i \in 1..Len(y) : y[i] = y[1]
    /\ ~IsPowerOfTwo(y[1][2])

\* lines 119-123 for such a series: r_squared is 1.0 when ss_yy came out as
\* 0 and 0.0 when it did not
InexactMeanOutcomes(fit) == {fit, [fit EXCEPT !.r_squared = Num(0)]}

\* the results the float arithmetic can give
RegressionOutcomes(x, y) ==
    IF Len(x) < 2 THEN {[slope |-> Num(0), intercept |-> Num(0), r_squared |-> Num(0)]}
    ELSE IF InexactMean(y) THEN InexactMeanOutcomes(Rounded(LeastSquares(x, y)))
    ELSE RoundedOutcomes(LeastSquares(x, y))

\* the default threshold of _get_trend_direction, 0.01
Threshold == R(1, 100)

\* the threshold itself taken for a rise or a fall
TrendDirectionInclusive(slope) ==
    IF RLe(Threshold, slope) THEN "artan"
    ELSE IF RLe(slope, RSub(Num(0), Threshold)) THEN "azalan"
    ELSE "sabit"

\* the two directions exchanged
TrendDirectionMirrored(slope) ==
    IF RLt(Threshold, slope) THEN "azalan"
    ELSE IF RLt(slope, RSub(Num(0), Threshold)) THEN "artan"
    ELSE "sabit"

\* "artan" rising, "azalan" falling, "sabit" flat
_get_trend_direction(slope) ==
    IF RLt(Threshold, slope) THEN "artan"
    ELSE IF RLt(slope, RSub(Num(0), Threshold)) THEN "azalan"
    ELSE "sabit"

\* "guclu" strong, "orta" moderate, "zayif" weak, "belirsiz" inconclusive
_get_trend_strength(r_squared) ==
    IF RLe(R(7, 10), r_squared) THEN "guclu"
    ELSE IF RLe(R(4, 10), r_squared) THEN "orta"
    ELSE IF RLe(R(2, 10), r_squared) THEN "zayif"
    ELSE "belirsiz"

\* x = list(range(len(values)))
RangeList(n) == [i \in 1..n |-> Num(i - 1)]

-----------------------------------------------------------------------------
(* trends.py: compute_commit_trend *)

\* strftime("%Y-%m-%d"): the calendar day of a datetime
DayOf(dt) == (dt.t + dt.off) \div TicksPerDay

\* min(dates) and max(dates) of the sorted list: the first of the elements
\* that compare equal to the least, and the first of those equal to the
\* greatest (datetimes compare by instant, whatever their offsets)
MinDate(sorted) == sorted[1]
MaxDate(sorted) ==
    sorted[CHOOSE i \in 1..Len(sorted) :
              /\ sorted[i].t = sorted[Len(sorted)].t
              /\ \A j \in 1..(i - 1) : sorted[j].t # sorted[Len(sorted)].t]

\* lines 231-235: daily_counts[day_key]
DailyCount(dates, day) == Cardinality({i \in 1..Len(dates) : DayOf(dates[i]) = day})

\* the short-circuit result with a rising direction
FlatButRising(summary) ==
    [regression |-> [slope |-> Num(0), intercept |-> Num(0), r_squared |-> Num(0)],
     trend_direction |-> "artan",
     trend_strength |-> "belirsiz",
     summary |-> summary]

\* the fixed part of the result returned when there is too little data
Flat(summary) ==
    [regression |-> [slope |-> Num(0), intercept |-> Num(0), r_squared |-> Num(0)],
     trend_direction |-> "sabit",
     trend_strength |-> "belirsiz",
     summary |-> summary]

\* lines 241-251: one point for every day from start_date to end_date
DailySeries(sorted, start_date, end_date) ==
    [i \in 1..(end_date - start_date + 1) |->
        [date |-> start_date + i - 1,
         count |-> DailyCount(sorted, start_date + i - 1)]]

\* lines 264-300: the classification, the summary and the result
CommitTrendResult(time_series, values, ma7, regression, avg_commits) ==
    [time_series |-> time_series,
     moving_average |-> [i \in 1..Len(time_series) |->
                            [date |-> time_series[i].date,
                             ma7 |-> IF i <= Len(ma7) THEN Round(ma7[i], 2) ELSE NoValue]],
     daily_values |-> values,
     ma7_values |-> [i \in 1..Len(ma7) |-> Round(ma7[i], 2)],
     regression |-> regression,
     trend_direction |-> _get_trend_direction(regression.slope),
     trend_strength |-> _get_trend_strength(regression.r_squared),
     average_daily_commits |-> Round(avg_commits, 2),
     total_days |-> Len(time_series),
     summary |-> <<Round(avg_commits, 1),
                   _get_trend_strength(regression.r_squared),
                   _get_trend_direction(regression.slope),
                   Round(regression.slope, 4),
                   Round(regression.r_squared, 2)>>]

\* lines 256-268: the moving average, the regression and the mean of the
\* daily counts
CommitTrendOfValues(time_series, values) ==
    CommitTrendResult(time_series, values,
                      _calculate_moving_average(values, 7),
                      _calculate_linear_regression(RangeList(Len(values)), values),
                      IF values = <<>> THEN Num(0)
                      ELSE RDiv(RSum(values), Num(Len(values))))

\* line 254: the values of the series
CommitTrendOfSeries(time_series) ==
    CommitTrendOfValues(time_series,
                        [i \in 1..Len(time_series) |-> Num(time_series[i].count)])

\* lines 230-239: the series runs from min(dates).date() to max(dates).date()
CommitTrendOfSorted(sorted) ==
    CommitTrendOfSeries(DailySeries(sorted, DayOf(MinDate(sorted)), DayOf(MaxDate(sorted))))

\* lines 219-230, from what the loop of lines 204-217 collected
CommitTrendOfDates(ex) ==
    IF ex.raised # "none" THEN [raised |-> ex.raised]
    ELSE IF Len(ex.dates) < 2
    THEN [time_series |-> IF ex.dates # <<>>
                          THEN <<[date |-> DayOf(ex.dates[1]), count |-> 1]>>
                          ELSE <<>>,
          moving_average |-> IF ex.dates # <<>> THEN <<Num(1)>> ELSE <<>>]
         @@ Flat("Trend analizi icin yeterli veri yok.")
    ELSE IF MixedKinds(ex.dates) THEN [raised |-> "TypeError"]
    ELSE CommitTrendOfSorted(SortDates(ex.dates))

compute_commit_trend(commits, now) ==
    IF commits = <<>>
    THEN [time_series |-> <<>>, moving_average |-> <<>>] @@ Flat("Yeterli commit verisi yok.")
    ELSE CommitTrendOfDates(ExtractDates(commits, now))

-----------------------------------------------------------------------------
(* trends.py: compute_issue_trend *)

\* lines 337-359: the resolved issues in input order, or the first exception
RECURSIVE ResolvedIssues(_, _)
ResolvedIssues(issues, now) ==
    IF issues = <<>> THEN [raised |-> "none", resolved |-> <<>>]
    ELSE LET head == IssueResolution(issues[1], now)
         IN  IF head.kind \in {"AttributeError", "TypeError"}
             THEN [raised |-> head.kind, resolved |-> <<>>]
             ELSE LET rest == ResolvedIssues(Tail(issues), now)
                  IN  IF rest.raised # "none" THEN rest
                      ELSE IF head.kind = "resolved"
                           THEN [raised |-> "none",
                                 resolved |->
                                     <<[closed_date |-> head.closed,
                                        resolution_days |-> ResolutionDays(head.ticks),
                                        resolution_hours |->
                                            RMul(Num(24), ResolutionDays(head.ticks))]>>
                                     \o rest.resolved]
                           ELSE rest

RECURSIVE InsertIssue(_, _)
InsertIssue(sorted, e) ==
    IF sorted = <<>> THEN <<e>>
    ELSE IF e.closed_date.t < sorted[1].closed_date.t THEN <<e>> \o sorted
    ELSE <<sorted[1]>> \o InsertIssue(Tail(sorted), e)

\* resolved_issues.sort(key=lambda x: x["closed_date"]): ascending, stable
RECURSIVE SortIssues(_)
SortIssues(resolved) ==
    IF resolved = <<>> THEN <<>>
    ELSE InsertIssue(SortIssues(SubSeq(resolved, 1, Len(resolved) - 1)),
                     resolved[Len(resolved)])

RECURSIVE RMinOf(_)
RMinOf(values) ==
    IF Len(values) = 1 THEN values[1] ELSE RMin(values[1], RMinOf(Tail(values)))

RECURSIVE RMaxOf(_)
RMaxOf(values) ==
    IF Len(values) = 1 THEN values[1] ELSE RMax(values[1], RMaxOf(Tail(values)))

\* the sense of the commit trend kept: a rising slope read as an improvement
IssueDirectionLikeCommits(slope) ==
    IF RLt(Threshold, slope) THEN "iyilesiyor"
    ELSE IF RLt(slope, RSub(Num(0), Threshold)) THEN "kotulesiyor"
    ELSE "sabit"

\* lines 397-402
IssueDirection(slope) ==
    IF RLt(slope, RSub(Num(0), Threshold)) THEN "iyilesiyor"
    ELSE IF RLt(Threshold, slope) THEN "kotulesiyor"
    ELSE "sabit"

\* lines 394-447: the classification, the summary and the result
IssueTrendResult(resolution_series, values, ma, regression, avg_resolution, min_resolution, max_resolution) ==
    [resolution_series |-> resolution_series,
     moving_average |-> [i \in 1..Len(resolution_series) |->
                            [date |-> resolution_series[i].date,
                             ma |-> IF i <= Len(ma) THEN Round(ma[i], 2) ELSE NoValue]],
     resolution_values |-> [i \in 1..Len(values) |-> Round(values[i], 2)],
     ma_values |-> [i \in 1..Len(ma) |-> Round(ma[i], 2)],
     regression |-> regression,
     trend_direction |-> IssueDirection(regression.slope),
     trend_strength |-> _get_trend_strength(regression.r_squared),
     statistics |-> [average_days |-> Round(avg_resolution, 2),
                     min_days |-> Round(min_resolution, 2),
                     max_days |-> Round(max_resolution, 2),
                     total_resolved |-> Len(values)],
     summary |-> <<Round(avg_resolution, 1),
                   _get_trend_strength(regression.r_squared),
                   IssueDirection(regression.slope),
                   Round(min_resolution, 1),
                   Round(max_resolution, 1)>>]

\* lines 386-409: the moving average, the regression and the statistics of
\* the resolution times
IssueTrendOfValues(resolution_series, values) ==
    IssueTrendResult(resolution_series, values,
                     _calculate_moving_average(values, Min(7, Len(values))),
                     _calculate_linear_regression(RangeList(Len(values)), values),
                     RDiv(RSum(values), Num(Len(values))),
                     RMinOf(values),
                     RMaxOf(values))

\* lines 374-384: the series and its values, in the order of closing
IssueTrendOfSorted(sorted) ==
    IssueTrendOfValues([i \in 1..Len(sorted) |->
                           [date |-> DayOf(sorted[i].closed_date),
                            resolution_days |-> Round(sorted[i].resolution_days, 2),
                            resolution_hours |-> Round(sorted[i].resolution_hours, 1)]],
                       [i \in 1..Len(sorted) |-> sorted[i].resolution_days])

\* lines 361-372, from what the loop of lines 337-359 collected
IssueTrendOfResolved(ri) ==
    IF ri.raised # "none" THEN [raised |-> ri.raised]
    ELSE IF Len(ri.resolved) < 2
    THEN [resolution_series |-> ri.resolved, moving_average |-> <<>>]
         @@ Flat("Trend analizi icin yeterli cozulmus issue yok.")
    ELSE IF MixedKinds([i \in 1..Len(ri.resolved) |-> ri.resolved[i].closed_date])
         THEN [raised |-> "TypeError"]
    ELSE IssueTrendOfSorted(SortIssues(ri.resolved))

compute_issue_trend(issues, now) ==
    IF issues = <<>>
    THEN [resolution_series |-> <<>>, moving_average |-> <<>>]
         @@ Flat("Yeterli issue verisi yok.")
    ELSE IssueTrendOfResolved(ResolvedIssues(issues, now))

-----------------------------------------------------------------------------
(* trends.py: compute_weekly_summary and the health indicator *)

Max(a, b) == IF a >= b THEN a ELSE b

\* dict.get(key, default)
Get(d, key, default) == IF key \in DOMAIN d THEN d[key] ELSE default

\* the thresholds compared strictly: a score on a threshold falls one
\* status lower
HealthStatusStrict(score) ==
    IF score > 70 THEN [status |-> "saglikli", emoji |-> "check"]
    ELSE IF score > 50 THEN [status |-> "stabil", emoji |-> "dash"]
    ELSE IF score > 30 THEN [status |-> "dikkat", emoji |-> "warning"]
    ELSE [status |-> "kritik", emoji |-> "siren"]

\* lines 527-538: "saglikli" healthy, "stabil" stable, "dikkat" caution,
\* "kritik" critical
HealthStatus(score) ==
    IF score >= 70 THEN [status |-> "saglikli", emoji |-> "check"]
    ELSE IF score >= 50 THEN [status |-> "stabil", emoji |-> "dash"]
    ELSE IF score >= 30 THEN [status |-> "dikkat", emoji |-> "warning"]
    ELSE [status |-> "kritik", emoji |-> "siren"]

_calculate_health_indicator(commit_trend, issue_trend) ==
    LET commit_direction == Get(commit_trend, "trend_direction", "sabit")
        issue_direction == Get(issue_trend, "trend_direction", "sabit")
        commit_strength == Get(commit_trend, "trend_strength", "belirsiz")
        issue_strength == Get(issue_trend, "trend_strength", "belirsiz")
        after_commit == 50 + (CASE commit_direction = "artan" -> 15
                                [] commit_direction = "azalan" -> -10
                                [] OTHER -> 0)
        after_issue == after_commit + (CASE issue_direction = "iyilesiyor" -> 15
                                         [] issue_direction = "kotulesiyor" -> -15
                                         [] OTHER -> 0)
        after_commit_bonus ==
            IF commit_strength = "guclu" /\ commit_direction = "artan"
            THEN after_issue + 10 ELSE after_issue
        after_issue_bonus ==
            IF issue_strength = "guclu" /\ issue_direction = "iyilesiyor"
            THEN after_commit_bonus + 10 ELSE after_commit_bonus
        score == Max(0, Min(100, after_issue_bonus))
    IN  [score |-> score,
         status |-> HealthStatus(score).status,
         emoji |-> HealthStatus(score).emoji,
         factors |-> [commit_trend |-> commit_direction,
                      issue_trend |-> issue_direction]]

\* The calendar.  Tick 0 is midnight of Saturday 2024-12-28: weekday counts
\* from Monday = 0, yday from 1 January = 0.
Epoch == [year |-> 2024, yday |-> 362, weekday |-> 5]

IsLeap(year) == (year % 4 = 0 /\ year % 100 # 0) \/ year % 400 = 0

YearLength(year) == IF IsLeap(year) THEN 366 ELSE 365

\* the year and day of year that lie yday days after 1 January of year
RECURSIVE DateFrom(_, _)
DateFrom(year, yday) ==
    IF yday < 0 THEN DateFrom(year - 1, yday + YearLength(year - 1))
    ELSE IF yday >= YearLength(year) THEN DateFrom(year + 1, yday - YearLength(year))
    ELSE [year |-> year, yday |-> yday]

\* datetime.strptime(entry["date"], "%Y-%m-%d") of the day numbered day
CalendarDate(day) == DateFrom(Epoch.year, Epoch.yday + day)

Weekday(day) == (Epoch.weekday + day) % 7

\* date.strftime("%Y-W%W"): the calendar year, and the week of that year
\* counted from its first Monday (the days before it are week 0)
WeekKey(day) ==
    [year |-> CalendarDate(day).year,
     week |-> (CalendarDate(day).yday + 7 - Weekday(day)) \div 7]

\* the order of the keys as strings ("2024-W53" < "2025-W00")
KeyBefore(a, b) == a.year < b.year \/ (a.year = b.year /\ a.week < b.week)

\* sorted(weekly_commits.items()): the keys in ascending order
RECURSIVE SortKeys(_)
SortKeys(keys) ==
    IF keys = {} THEN <<>>
    ELSE LET least == CHOOSE k \in keys : \A other \in keys \ {k} : KeyBefore(k, other)
         IN  <<least>> \o SortKeys(keys \ {least})

\* weekly_commits[week_key] after the first n entries of the series
RECURSIVE WeekCount(_, _, _)
WeekCount(time_series, week_key, n) ==
    IF n = 0 THEN 0
    ELSE IF WeekKey(time_series[n].date) = week_key
         THEN WeekCount(time_series, week_key, n - 1) + time_series[n].count
         ELSE WeekCount(time_series, week_key, n - 1)

WeeklyCommits(time_series) ==
    LET keys == SortKeys({WeekKey(time_series[i].date) : i \in 1..Len(time_series)})
    IN  [j \in 1..Len(keys) |->
            [week |-> keys[j],
             commits |-> WeekCount(time_series, keys[j], Len(time_series))]]

\* lines 468-489: the summary built from the two trends
WeeklySummary(commit_trend, issue_trend) ==
    IF "raised" \in DOMAIN commit_trend THEN commit_trend
    ELSE IF "raised" \in DOMAIN issue_trend THEN issue_trend
    ELSE [commit_trend |-> commit_trend,
          issue_trend |-> issue_trend,
          weekly_commits |-> WeeklyCommits(commit_trend.time_series),
          overall_health |-> _calculate_health_indicator(commit_trend, issue_trend)]

compute_weekly_summary(commits, issues, now) ==
    WeeklySummary(compute_commit_trend(commits, now), compute_issue_trend(issues, now))

-----------------------------------------------------------------------------
(* scoring.py *)

\* A scores mapping is the sequence of its [name, score] entries in
\* insertion order (names distinct); a weights mapping is a function from
\* names to numbers; the weights argument is [given, map], given = FALSE
\* standing for None.

MetricNames == {"commit_frequency", "issue_resolution", "pr_rejection", "test_ratio"}

DEFAULT_WEIGHTS == [m \in MetricNames |-> R(1, 4)]

GRADE_THRESHOLDS ==
    <<[grade |-> "A+", threshold |-> 95], [grade |-> "A", threshold |-> 90],
      [grade |-> "A-", threshold |-> 85], [grade |-> "B+", threshold |-> 80],
      [grade |-> "B", threshold |-> 75], [grade |-> "B-", threshold |-> 70],
      [grade |-> "C+", threshold |-> 65], [grade |-> "C", threshold |-> 60],
      [grade |-> "C-", threshold |-> 55], [grade |-> "D+", threshold |-> 50],
      [grade |-> "D", threshold |-> 45], [grade |-> "D-", threshold |-> 40],
      [grade |-> "F", threshold |-> 0]>>

\* lines 53-54 and 157-158
WeightsOrDefault(weights) == IF weights.given THEN weights.map ELSE DEFAULT_WEIGHTS

\* the equal-share fallback of lines 63-65 left out
AppliedWeightNoFallback(scores, weights, metric_name) ==
    LET w == WeightsOrDefault(weights)
    IN  IF metric_name \in DOMAIN w THEN w[metric_name] ELSE Num(0)

\* lines 60-65: the weight the loop applies to one metric
AppliedWeight(scores, weights, metric_name) ==
    LET w == WeightsOrDefault(weights)
        weight == IF metric_name \in DOMAIN w THEN w[metric_name] ELSE Num(0)
    IN  IF weight = Num(0) /\ metric_name \notin DOMAIN w
        THEN R(1, Len(scores))
        ELSE weight

\* line 67 summed over the loop
WeightedSum(scores, weights) ==
    RSum([i \in 1..Len(scores) |->
             RMul(scores[i].score, AppliedWeight(scores, weights, scores[i].name))])

\* line 68 summed over the loop
TotalWeight(scores, weights) ==
    RSum([i \in 1..Len(scores) |-> AppliedWeight(scores, weights, scores[i].name)])

\* the weighted average proper: always divided by the total weight
WeightedAverage(scores, weights) ==
    IF scores = <<>> THEN Num(0)
    ELSE LET total_weight == TotalWeight(scores, weights)
             weighted_sum == WeightedSum(scores, weights)
         IN  IF total_weight = Num(0) THEN Num(0)
             ELSE RDiv(weighted_sum, total_weight)

calculate_weighted_score(scores, weights) ==
    IF scores = <<>> THEN Num(0)
    ELSE LET total_weight == TotalWeight(scores, weights)
             weighted_sum == WeightedSum(scores, weights)
         IN  IF total_weight = Num(0) THEN Num(0)
             ELSE RMul(RDiv(weighted_sum, total_weight),
                       IF RLe(total_weight, Num(1)) THEN total_weight ELSE Num(1))

\* the comparison of line 87 made strict
RECURSIVE GradeScanStrict(_, _)
GradeScanStrict(score, i) ==
    IF i > Len(GRADE_THRESHOLDS) THEN "F"
    ELSE IF RLt(Num(GRADE_THRESHOLDS[i].threshold), score)
         THEN GRADE_THRESHOLDS[i].grade
         ELSE GradeScanStrict(score, i + 1)

\* lines 86-89: the scan from entry i on, in the table's order
RECURSIVE GradeScan(_, _)
GradeScan(score, i) ==
    IF i > Len(GRADE_THRESHOLDS) THEN "F"
    ELSE IF RLe(Num(GRADE_THRESHOLDS[i].threshold), score)
         THEN GRADE_THRESHOLDS[i].grade
         ELSE GradeScan(score, i + 1)

get_grade(score) == GradeScan(score, 1)

\* sum(custom_weights.values())
RECURSIVE SumOver(_, _)
SumOver(f, keys) ==
    IF keys = {} THEN Num(0)
    ELSE LET k == CHOOSE x \in keys : TRUE
         IN  RAdd(f[k], SumOver(f, keys \ {k}))

\* the weights divided by their number instead of their total
AdjustByCount(custom_weights) ==
    IF DOMAIN custom_weights = {} THEN DEFAULT_WEIGHTS
    ELSE LET total == SumOver(custom_weights, DOMAIN custom_weights)
         IN  IF total = Num(0) THEN DEFAULT_WEIGHTS
             ELSE [k \in DOMAIN custom_weights |->
                      RDiv(custom_weights[k], Num(Cardinality(DOMAIN custom_weights)))]

adjust_weights(custom_weights) ==
    IF DOMAIN custom_weights = {} THEN DEFAULT_WEIGHTS
    ELSE LET total == SumOver(custom_weights, DOMAIN custom_weights)
         IN  IF total = Num(0) THEN DEFAULT_WEIGHTS
             ELSE [k \in DOMAIN custom_weights |-> RDiv(custom_weights[k], total)]

\* "Yuksek" high, "Orta" medium, "Dusuk" low
_get_priority(score, weight) ==
    LET impact == RMul(RSub(Num(100), score), weight)
    IN  IF RLt(Num(15), impact) THEN "Yuksek"
        ELSE IF RLt(Num(8), impact) THEN "Orta"
        ELSE "Dusuk"

\* the canned text, named by the table it is taken from (the metric's own,
\* or the generic one) and the score bucket
_get_recommendation(metric_name, score) ==
    <<IF metric_name \in MetricNames THEN metric_name ELSE "generic",
      IF RLt(score, Num(40)) THEN "low"
      ELSE IF RLt(score, Num(70)) THEN "medium"
      ELSE "high">>

\* lines 162-171: the entry of one metric
Improvement(entry, weights) ==
    LET w == WeightsOrDefault(weights)
        weight == IF entry.name \in DOMAIN w THEN w[entry.name] ELSE R(1, 4)
        potential == RMul(RSub(Num(100), entry.score), weight)
    IN  [name |-> entry.name,
         current_score |-> entry.score,
         potential_gain |-> Round(potential, 2),
         priority |-> _get_priority(entry.score, weight),
         recommendation |-> _get_recommendation(entry.name, entry.score)]

\* the sort without reverse=True: ascending by potential_gain
RECURSIVE InsertAscending(_, _)
InsertAscending(sorted, e) ==
    IF sorted = <<>> THEN <<e>>
    ELSE IF RLt(e.potential_gain, sorted[1].potential_gain) THEN <<e>> \o sorted
    ELSE <<sorted[1]>> \o InsertAscending(Tail(sorted), e)

\* sorted(..., key=potential_gain, reverse=True): descending, and stable
\* (entries of equal gain keep their insertion order)
RECURSIVE InsertDescending(_, _)
InsertDescending(sorted, e) ==
    IF sorted = <<>> THEN <<e>>
    ELSE IF RLt(sorted[1].potential_gain, e.potential_gain) THEN <<e>> \o sorted
    ELSE <<sorted[1]>> \o InsertDescending(Tail(sorted), e)

RECURSIVE SortImprovements(_)
SortImprovements(entries) ==
    IF entries = <<>> THEN <<>>
    ELSE InsertDescending(SortImprovements(SubSeq(entries, 1, Len(entries) - 1)),
                          entries[Len(entries)])

calculate_improvement_potential(scores, weights) ==
    SortImprovements([i \in 1..Len(scores) |-> Improvement(scores[i], weights)])

-----------------------------------------------------------------------------
(* metrics.py: the overall score *)

\* A metrics mapping is the sequence of its [name, result] entries.
\* lines 387-392: the scores of the entries that carry one
RECURSIVE ExtractScores(_)
ExtractScores(metrics_dict) ==
    IF metrics_dict = <<>> THEN <<>>
    ELSE LET rest == ExtractScores(Tail(metrics_dict))
             metric == metrics_dict[1]
         IN  IF "score" \in DOMAIN metric.result
             THEN <<[name |-> metric.name, score |-> metric.result.score]>> \o rest
             ELSE rest

compute_overall_score(metrics_dict) ==
    LET scores == ExtractScores(metrics_dict)
        overall_score == calculate_weighted_score(scores, [given |-> FALSE, map |-> <<>>])
    IN  [overall_score |-> Round(overall_score, 2),
         breakdown |-> scores,
         grade |-> get_grade(overall_score),
         metrics_count |-> Len(scores)]

-----------------------------------------------------------------------------
(* scoring.py / metrics.py: the calls as they act on the mapping objects *)

\* An object is a dict with an identity: "DEFAULT_WEIGHTS" is the module's
\* mapping, "scores" and "weights" are the mappings the caller hands over
\* (weights may be None), "fresh" is the dict a call creates for its result.
\* A call gives the objects after it, the object it returns ("value" when it
\* returns a number) and that number.
NoObject == [live |-> FALSE]
Live(content) == [live |-> TRUE, content |-> content]

\* a dict display, a comprehension or dict.copy(): a new object
NewObject(h, content) == [h EXCEPT !.fresh = Live(content)]

\* d[key] = value
Assign(d, key, value) ==
    [k \in DOMAIN d \cup {key} |-> IF k = key THEN value ELSE d[k]]

\* lines 53-54 and 157-158: the mapping the local name weights is bound to
WeightsObject(h) ==
    IF h.weights.live THEN h.weights.content ELSE h.DEFAULT_WEIGHTS.content

\* lines 50-74: reads scores and weights, returns a number
WeightedScoreOn(h) ==
    [heap |-> h,
     returned |-> "value",
     value |-> calculate_weighted_score(h.scores.content,
                                        [given |-> TRUE, map |-> WeightsObject(h)])]

\* lines 132-140 with DEFAULT_WEIGHTS returned as it is, not copied
AdjustWeightsShared(h) ==
    LET custom_weights == h.weights.content
    IN  IF DOMAIN custom_weights = {}
           \/ SumOver(custom_weights, DOMAIN custom_weights) = Num(0)
        THEN [heap |-> h, returned |-> "DEFAULT_WEIGHTS", value |-> "none"]
        ELSE [heap |-> NewObject(h, adjust_weights(custom_weights)), returned |-> "fresh", value |-> "none"]

\* lines 132-140: DEFAULT_WEIGHTS.copy() or the comprehension of line 140
AdjustWeightsOn(h) ==
    LET custom_weights == h.weights.content
    IN  IF DOMAIN custom_weights = {}
           \/ SumOver(custom_weights, DOMAIN custom_weights) = Num(0)
        THEN [heap |-> NewObject(h, h.DEFAULT_WEIGHTS.content), returned |-> "fresh", value |-> "none"]
        ELSE [heap |-> NewObject(h, adjust_weights(custom_weights)), returned |-> "fresh", value |-> "none"]

\* lines 157-182: the dict improvements is built, sorted into a new dict
ImprovementPotentialOn(h) ==
    [heap |-> NewObject(h, calculate_improvement_potential(
                              h.scores.content,
                              [given |-> TRUE, map |-> WeightsObject(h)])),
     returned |-> "fresh", value |-> "none"]

\* metrics.py lines 385-404: the dict scores is built and put into a new dict
OverallScoreOn(h) ==
    [heap |-> NewObject(h, compute_overall_score(h.scores.content)),
     returned |-> "fresh", value |-> "none"]

-----------------------------------------------------------------------------
(* utils.py: the GitHub client *)

\* GitHubConfig.max_retries
max_retries == 3

None == "None"

\* What one HTTP attempt can end in: a status code (403 with or without the
\* words "rate limit" in the body), a timeout, another connection error.
AttemptOutcomes ==
    {"200", "401", "403", "403_rate_limit", "404", "500", "timeout", "connection_error"}

\* lines 156-159 without the test of line 157: a timeout always goes on to
\* the next turn of the loop
RECURSIVE RequestAlwaysContinuing(_, _, _)
RequestAlwaysContinuing(responses, body, attempt) ==
    IF attempt >= max_retries
    THEN [data |-> None, error |-> "Maksimum deneme sayisi asildi", attempts |-> attempt]
    ELSE LET response == responses[attempt + 1]
             Result(d, e) == [data |-> d, error |-> e, attempts |-> attempt + 1]
         IN  CASE response = "200" -> Result(body, "none")
               [] response = "404" -> Result(None, "Repository bulunamadi")
               [] response = "403_rate_limit" -> Result(None, "Rate limit asildi")
               [] response = "403" -> Result(None, "Erisim reddedildi")
               [] response = "401" -> Result(None, "Gecersiz token")
               [] response = "timeout" ->
                     RequestAlwaysContinuing(responses, body, attempt + 1)
               [] response = "connection_error" -> Result(None, "Baglanti hatasi")
               [] OTHER -> Result(None, "API hatasi")

\* lines 130-164, from attempt number `attempt` (counted from 0) on: responses[i]
\* is what the i-th attempt ends in, body what a 200 response carries.
\* The result is (data, error) and the number of attempts made.
RECURSIVE RequestFrom(_, _, _)
RequestFrom(responses, body, attempt) ==
    IF attempt >= max_retries
    THEN [data |-> None, error |-> "Maksimum deneme sayisi asildi", attempts |-> attempt]
    ELSE LET response == responses[attempt + 1]
             Result(d, e) == [data |-> d, error |-> e, attempts |-> attempt + 1]
         IN  CASE response = "200" -> Result(body, "none")
               [] response = "404" -> Result(None, "Repository bulunamadi")
               [] response = "403_rate_limit" -> Result(None, "Rate limit asildi")
               [] response = "403" -> Result(None, "Erisim reddedildi")
               [] response = "401" -> Result(None, "Gecersiz token")
               [] response = "timeout" ->
                     IF attempt < max_retries - 1
                     THEN RequestFrom(responses, body, attempt + 1)
                     ELSE Result(None, "Istek zaman asimina ugradi")
               [] response = "connection_error" -> Result(None, "Baglanti hatasi")
               [] OTHER -> Result(None, "API hatasi")

_request(responses, body) == RequestFrom(responses, body, 0)

\* the page the server returns for ?page=<page>&per_page=<PerPage>
PageOf(items, page) ==
    SubSeq(items, (page - 1) * PerPage + 1,
           IF page * PerPage < Len(items) THEN page * PerPage ELSE Len(items))

Truncate(items, max_items) ==
    SubSeq(items, 1, IF max_items < Len(items) THEN max_items ELSE Len(items))

\* lines 201-202 dropped: a page shorter than per_page does not end the loop
RECURSIVE PaginatePastShortPages(_, _, _, _, _, _)
PaginatePastShortPages(items, responses, max_items, all_items, page, requests) ==
    IF Len(all_items) >= max_items
    THEN [items |-> Truncate(all_items, max_items), error |-> "none", requests |-> requests]
    ELSE LET r == _request(responses[page], PageOf(items, page))
             issued == Append(requests, r.error)
         IN  IF r.error # "none"
             THEN [items |-> all_items,
                   error |-> IF all_items = <<>> THEN r.error ELSE "none",
                   requests |-> issued]
             ELSE IF r.data = <<>>
             THEN [items |-> Truncate(all_items, max_items), error |-> "none",
                   requests |-> issued]
             ELSE PaginatePastShortPages(items, responses, max_items, all_items \o r.data,
                                         page + 1, issued)

\* lines 189-206, from page `page` on with all_items collected so far:
\* responses[p] is the attempts of the request for page p.  The result is
\* (items, error) and the errors of the requests issued, in order.
RECURSIVE PaginateFrom(_, _, _, _, _, _)
PaginateFrom(items, responses, max_items, all_items, page, requests) ==
    IF Len(all_items) >= max_items
    THEN [items |-> Truncate(all_items, max_items), error |-> "none", requests |-> requests]
    ELSE LET r == _request(responses[page], PageOf(items, page))
             issued == Append(requests, r.error)
         IN  IF r.error # "none"
             THEN [items |-> all_items,
                   error |-> IF all_items = <<>> THEN r.error ELSE "none",
                   requests |-> issued]
             ELSE IF r.data = <<>>
             THEN [items |-> Truncate(all_items, max_items), error |-> "none",
                   requests |-> issued]
             ELSE IF Len(r.data) < PerPage
             THEN [items |-> Truncate(all_items \o r.data, max_items), error |-> "none",
                   requests |-> issued]
             ELSE PaginateFrom(items, responses, max_items, all_items \o r.data,
                               page + 1, issued)

_paginate(items, responses, max_items) ==
    PaginateFrom(items, responses, max_items, <<>>, 1, <<>>)

\* one of the requests issued ended in an error
RequestFailed(fetched) == \E i \in 1..Len(fetched.requests) : fetched.requests[i] # "none"

\* lines 222-223: repo_info is "info" (a non-empty mapping) or "empty" ({})
fetch_repo_info(responses, srv) ==
    LET r == _request(responses, srv.repo_info)
    IN  [data |-> IF r.data = None THEN "empty" ELSE r.data,
         error |-> r.error,
         requests |-> <<r.error>>]

\* lines 236-259; the profile requests of lines 245-257 only add display
\* fields to the contributors and their errors are dropped
fetch_contributors(responses, srv) ==
    LET p == _paginate(srv.contributors, responses, MaxContributors)
    IN  IF p.error # "none" /\ p.items = <<>>
        THEN [items |-> <<>>, error |-> p.error, requests |-> p.requests]
        ELSE [items |-> p.items, error |-> "none", requests |-> p.requests]

fetch_commits(responses, srv) == _paginate(srv.commits, responses, MaxItems)

NotPullRequest(item) == ~item.pull_request

\* lines 298-307
fetch_issues(responses, srv) ==
    LET p == _paginate(srv.issues, responses, MaxItems)
    IN  [items |-> SelectSeq(p.items, NotPullRequest), error |-> p.error,
         requests |-> p.requests]

fetch_pull_requests(responses, srv) == _paginate(srv.pull_requests, responses, MaxItems)

IsBlob(item) == item.type = "blob"

\* lines 336-361 with no branch given: responses[1] is the attempts of the
\* repository request, responses[2] those of the tree request
fetch_files(responses, srv) ==
    LET info == fetch_repo_info(responses[1], srv)
    IN  IF info.error # "none"
        THEN [items |-> <<>>, error |-> info.error, requests |-> info.requests]
        ELSE LET r == _request(responses[2], [tree |-> srv.files])
                 issued == Append(info.requests, r.error)
                 blobs == SelectSeq(r.data.tree, IsBlob)
             IN  IF r.error # "none"
                 THEN [items |-> <<>>, error |-> r.error, requests |-> issued]
                 ELSE [items |-> [i \in 1..Len(blobs) |-> FileEntry("str", blobs[i].path)],
                       error |-> "none", requests |-> issued]

\* lines 365-366: languages is "info" or "empty"
fetch_languages(responses, srv) ==
    LET r == _request(responses, srv.languages)
    IN  [data |-> IF r.data = None THEN "empty" ELSE r.data,
         error |-> r.error,
         requests |-> <<r.error>>]

\* RepositoryData() as constructed (lines 35-42)
RepositoryData ==
    [repo_info |-> "empty", contributors |-> <<>>, commits |-> <<>>, issues |-> <<>>,
     pull_requests |-> <<>>, files |-> <<>>, languages |-> "empty", error |-> "none"]

\* the error is checked but not whether repo_info holds anything
ErrorIsNone(d) == d.error = "none"

\* RepositoryData.is_valid
is_valid(d) == d.error = "none" /\ d.repo_info # "empty"

\* A URL is [github, path]: whether it holds "github.com/", and the
\* segments that follow it, each [name, git] (git: the segment ends in
\* ".git"; an empty name is an empty segment).
NoUrl == [github |-> FALSE, path |-> <<>>]

\* (None, None)
NoMatch == [owner |-> None, repo |-> None, git |-> FALSE]

\* lines 420-430: owner and repo (git: the repo returned still ends in
\* ".git"), or NoMatch when neither pattern matches
parse_github_url(url) ==
    IF ~url.github \/ Len(url.path) < 2 THEN NoMatch
    ELSE IF url.path[1].name = "" \/ url.path[2].name = "" THEN NoMatch
    ELSE [owner |-> url.path[1].name,
          repo |-> url.path[2].name,
          git |-> Len(url.path) > 2 /\ url.path[2].git]

-----------------------------------------------------------------------------
(* The inputs of the library calls *)

\* all sequences over S of length at most n
SeqsUpTo(S, n) == UNION {[1..k -> S] : k \in 0..n}

\* clock readings
Nows == {4 * TicksPerDay, 5 * TicksPerDay + 1}

CommitRecords ==
    { Commit("nondict", Absent),
      Commit("author_absent", Absent),
      Commit("author_null", Absent),
      Commit("nested", IsoZ(0)),
      Commit("nested", IsoZ(1)),
      Commit("nested", IsoZ(2 * TicksPerDay)),
      Commit("flat_date", IsoNaive(TicksPerDay)),
      Commit("flat_created", IsoZ(8 * TicksPerDay)),
      Commit("nested", Garbage) }

\* commits stamped with UTC offsets: the first reads the second day on its
\* wall clock and is the earlier instant, the second reads the first day
\* and is the later instant
OffsetRecords ==
    { Commit("nested", IsoOffset(TicksPerDay - 1, 1)),
      Commit("nested", IsoOffset(TicksPerDay, -1)),
      Commit("nested", IsoZ(2 * TicksPerDay)) }

\* short lists of any records, lists of commits stamped with offsets, and
\* bursts of 2 * MaxLen commits in one day or over two days
CommitLists ==
    SeqsUpTo(CommitRecords, MaxLen)
    \cup {l \in SeqsUpTo(OffsetRecords, MaxLen) : Len(l) >= 2}
    \cup { [i \in 1..(2 * MaxLen) |-> Commit("nested", IsoZ(t))] : t \in {0, 1} }
    \cup { [i \in 1..(2 * MaxLen) |->
               Commit("nested", IsoZ(IF i = 1 THEN 0 ELSE 2 * TicksPerDay))] : t \in {0} }

IssueRecords ==
    { Issue("nondict", "absent", Absent, Absent),
      Issue("dict", "null", IsoZ(0), IsoZ(2)),
      Issue("dict", "absent", IsoZ(0), IsoZ(2)),
      Issue("dict", "open", IsoZ(0), Absent),
      Issue("dict", "closed", IsoZ(0), IsoZ(2)),
      Issue("dict", "closed", IsoZ(1), IsoZ(2)),
      Issue("dict", "CLOSED", IsoZ(0), IsoZ(40 * TicksPerDay)),
      Issue("dict", "closed", IsoZ(3), IsoZ(1)),
      Issue("dict", "closed", IsoNaive(0), IsoNaive(3)),
      Issue("dict", "closed", Garbage, IsoNaive(6 * TicksPerDay)),
      Issue("dict", "closed", IsoNaive(0), IsoZ(2)) }

IssueLists == SeqsUpTo(IssueRecords, MaxLen)

PRRecords ==
    { PR("nondict", "absent", "absent", Absent),
      PR("dict", "null", "absent", Absent),
      PR("dict", "open", "false", Null),
      PR("dict", "open", "true", IsoZ(1)),
      PR("dict", "closed", "absent", IsoZ(1)),
      PR("dict", "closed", "true", Absent),
      PR("dict", "CLOSED", "false", Null),
      PR("dict", "absent", "absent", IsoZ(1)),
      PR("dict", "absent", "absent", Absent) }

PRLists == SeqsUpTo(PRRecords, MaxLen)

FileEntries ==
    { FileEntry("dict_none", <<>>),
      FileEntry("str", <<>>),
      FileEntry("str", <<"s", "r", "c", "/", "a", ".", "p", "y">>),
      FileEntry("str", <<"t", "e", "s", "t", "s", "/", "t", "e", "s", "t", "_", "a", ".", "p", "y">>),
      FileEntry("str", <<"a", ".", "p", "n", "g">>),
      FileEntry("str", <<"R", "E", "A", "D", "M", "E", ".", "m", "d">>),
      FileEntry("dict_path", <<"a", ".", "t", "e", "s", "t", ".", "j", "s">>),
      FileEntry("dict_name", <<"c", "o", "n", "t", "e", "s", "t", "/", "a", ".", "p", "y">>),
      FileEntry("str", <<"F", "o", "o", "T", "e", "s", "t", ".", "j", "a", "v", "a">>) }

FileLists == SeqsUpTo(FileEntries, MaxLen)

\* four code files, one of them a test, and an image in the tests directory
OneTestInFour ==
    << FileEntry("str", <<"s", "r", "c", "/", "a", ".", "p", "y">>),
       FileEntry("str", <<"s", "r", "c", "/", "a", ".", "p", "y">>),
       FileEntry("str", <<"t", "e", "s", "t", "s", "/", "t", "e", "s", "t", "_", "a", ".", "p", "y">>),
       FileEntry("str", <<"s", "r", "c", "/", "a", ".", "p", "y">>),
       FileEntry("str", <<"t", "e", "s", "t", "s", "/", "a", ".", "p", "n", "g">>) >>

\* the clock matters to a call only through an unparseable timestamp
HasGarbage(records) ==
    \E i \in 1..Len(records) :
        \/ "date" \in DOMAIN records[i] /\ records[i].date.k = "garbage"
        \/ "created_at" \in DOMAIN records[i] /\ records[i].created_at.k = "garbage"

NowsFor(records) == IF HasGarbage(records) THEN Nows ELSE {4 * TicksPerDay}

\* 5 commits spanning exactly 2 days: the rate of 25 commits over 10 days
FiveInTwoDays ==
    [i \in 1..5 |-> Commit("nested", IsoZ(IF i = 5 THEN 2 * TicksPerDay ELSE 0))]

ScoreKeys == {"commit_frequency", "test_ratio", "custom"}
ScoreValues == {Num(0), R(3333, 100), Num(40), Num(68), Num(100)}

\* the scores mappings: up to MaxScores entries with distinct names
ScoreMaps ==
    {s \in SeqsUpTo([name : ScoreKeys, score : ScoreValues], MaxScores) :
        \A i, j \in 1..Len(s) : i # j => s[i].name # s[j].name}

WeightKeys == {"commit_frequency", "custom"}
WeightValues == {Num(0), R(1, 4), R(1, 2), Num(2)}

\* None, or a mapping giving a weight to some of the names
WeightArgs ==
    {[given |-> FALSE, map |-> <<>>]}
    \cup {[given |-> TRUE, map |-> m] :
             m \in UNION {[D -> WeightValues] : D \in SUBSET WeightKeys}}

\* the mappings handed to adjust_weights
CustomWeights ==
    UNION {[D -> WeightValues \cup {R(-1, 4), R(-1, 2)}] : D \in SUBSET ScoreKeys}

\* values in steps of an eighth, below, inside and above every range
NormalizeValues == {R(n, 8) : n \in -16..48}

\* the ranges the metric computers use, a range that does not start at 0,
\* and two empty ones
NormalizeRanges ==
    { <<Num(0), Num(5)>>, <<Num(0), Num(30)>>, <<Num(0), R(1, 2)>>, <<Num(0), R(3, 10)>>,
      <<Num(-1), Num(1)>>, <<Num(2), Num(2)>>, <<Num(0), Num(0)>> }

\* the lists handed to the moving average, and the windows: none, shorter
\* than a list, as long as the longest, and the default of 7
AveragedValues == SeqsUpTo({Num(0), Num(1), R(9, 2)}, MaxValues)
Windows == {-1, 0, 1, 2, 3, MaxValues, 7}

\* what the attempts of one request end in, attempt by attempt
RequestScripts == [1..max_retries -> AttemptOutcomes]

\* the collections a server holds, up to a page more than is ever collected,
\* the limits given to _paginate, and the attempts of the requests for the
\* pages: answered at once, after a timeout, or failing
PagedItems == {[i \in 1..n |-> i] : n \in 0..(MaxItems + PerPage)}
PagedLimits == {1, MaxItems - 1, MaxItems}
PagesServed == (MaxItems + PerPage - 1) \div PerPage + 1
PagedAttempts ==
    {a \in RequestScripts :
        \/ a[1] \in {"200", "timeout", "500"} /\ \A i \in 2..max_retries : a[i] = "200"
        \/ \A i \in 1..max_retries : a[i] = "timeout"}
PagedResponses == [1..PagesServed -> PagedAttempts]

\* scores in steps of a tenth from -5 to 105
GradeInputs == {R(n, 10) : n \in -50..1050}

Strengths == {"guclu", "orta", "zayif", "belirsiz"}

\* slopes in steps of a thousandth around the two thresholds
SlopeInputs == {R(n, 1000) : n \in -30..30}

\* r_squared in steps of a hundredth from 0 to 1
RSquaredInputs == {R(n, 100) : n \in 0..100}

\* the series that starts at first and goes on by the steps given
RECURSIVE Accumulate(_, _, _)
Accumulate(first, steps, n) ==
    IF n = 0 THEN <<Num(first)>>
    ELSE LET before == Accumulate(first, steps, n - 1)
         IN  before \o <<RAdd(before[n], Num(steps[n]))>>

Reverse(s) == [i \in 1..Len(s) |-> s[Len(s) + 1 - i]]

\* series of MaxPoints points that rise by 1 or 2 from each day to the next
RisingSeries ==
    {Accumulate(1, steps, MaxPoints - 1) : steps \in [1..(MaxPoints - 1) -> {1, 2}]}

\* a rising series whose r_squared, 0.95625, lies half way between two values
\* of four decimals
UnevenSeries ==
    <<Num(5), Num(6), Num(7), Num(8), Num(10), Num(13), Num(17), Num(19), Num(21),
      Num(22), Num(29)>>

\* seven resolution times of five hours each, in days
FiveHourSeries == [i \in 1..7 |-> R(5, 24)]

\* the series handed to the regression: none, short ones, the rising ones
\* and the same read backwards, and the series without variation
RegressionSeries ==
    SeqsUpTo({Num(0), Num(1), Num(3)}, 3)
    \cup RisingSeries
    \cup {Reverse(y) : y \in RisingSeries}
    \cup {UnevenSeries, Reverse(UnevenSeries)}
    \cup {FiveHourSeries}

\* what a commit trend and an issue trend tell the health indicator: a
\* direction and a strength, or neither key
CommitTrendSummaries ==
    {[trend_direction |-> d, trend_strength |-> s] :
        d \in {"artan", "azalan", "sabit"}, s \in Strengths}
    \cup {[time_series |-> <<>>]}

IssueTrendSummaries ==
    {[trend_direction |-> d, trend_strength |-> s] :
        d \in {"iyilesiyor", "kotulesiyor", "sabit"}, s \in Strengths}
    \cup {[resolution_series |-> <<>>]}

\* the commit lists of the weekly summary: the shorter ones, those stamped
\* with offsets and the bursts
WeeklyCommitLists == {l \in CommitLists : Len(l) < MaxLen \/ Len(l) = 2 * MaxLen}

\* its issue lists: none, resolution times falling, resolution times
\* rising, and an issue whose state is null
WeeklyIssueLists ==
    { <<>>,
      <<Issue("dict", "closed", IsoZ(0), IsoZ(2)), Issue("dict", "closed", IsoZ(1), IsoZ(2))>>,
      <<Issue("dict", "closed", IsoZ(0), IsoZ(2)),
        Issue("dict", "CLOSED", IsoZ(0), IsoZ(40 * TicksPerDay))>>,
      <<Issue("dict", "null", IsoZ(0), IsoZ(2))>> }

-----------------------------------------------------------------------------
(* The library, called by a client any number of times *)

\* analyze_repository has not returned
NoOutcome == [pending |-> TRUE]
NoServer == [repo_info |-> "empty", contributors |-> <<>>, commits |-> <<>>,
             issues |-> <<>>, pull_requests |-> <<>>, files |-> <<>>,
             languages |-> "empty"]

AnalyzeIdle ==
    /\ pc = "idle"
    /\ repo_url = NoUrl
    /\ server = NoServer
    /\ data = RepositoryData
    /\ failed = {}
    /\ invoked = {}
    /\ outcome = NoOutcome

\* the objects after the import of scoring.py: lines 11-16
HeapAtImport ==
    /\ heap = [DEFAULT_WEIGHTS |-> Live(DEFAULT_WEIGHTS), scores |-> NoObject,
               weights |-> NoObject, fresh |-> NoObject]
    /\ frame = [fn |-> "none", scores |-> NoObject, weights |-> NoObject,
                returned |-> "value", value |-> "none"]

Init ==
    /\ op = "idle"
    /\ arg = <<>>
    /\ res = <<>>
    /\ AnalyzeIdle
    /\ HeapAtImport

CallCommitFrequency ==
    /\ op = "idle"
    /\ \E commits \in CommitLists \cup {FiveInTwoDays} : \E now \in NowsFor(commits) :
          /\ op' = "compute_commit_frequency"
          /\ arg' = [commits |-> commits, now |-> now]
          /\ res' = compute_commit_frequency(commits, now)
    /\ UNCHANGED <<analyzeVars, heapVars>>

CallIssueResolution ==
    /\ op = "idle"
    /\ \E issues \in IssueLists : \E now \in NowsFor(issues) :
          /\ op' = "compute_issue_resolution"
          /\ arg' = [issues |-> issues, now |-> now]
          /\ res' = compute_issue_resolution(issues, now)
    /\ UNCHANGED <<analyzeVars, heapVars>>

CallPRRejection ==
    /\ op = "idle"
    /\ \E prs \in PRLists :
          /\ op' = "compute_pr_rejection"
          /\ arg' = [prs |-> prs]
          /\ res' = compute_pr_rejection(prs)
    /\ UNCHANGED <<analyzeVars, heapVars>>

CallTestRatio ==
    /\ op = "idle"
    /\ \E files \in FileLists \cup {OneTestInFour} :
          /\ op' = "compute_test_ratio"
          /\ arg' = [files |-> files]
          /\ res' = compute_test_ratio(files)
    /\ UNCHANGED <<analyzeVars, heapVars>>

CallNormalizeScore ==
    /\ op = "idle"
    /\ \E value \in NormalizeValues, range \in NormalizeRanges, inverse \in BOOLEAN :
          /\ op' = "_normalize_score"
          /\ arg' = [value |-> value, min_val |-> range[1], max_val |-> range[2],
                     inverse |-> inverse]
          /\ res' = _normalize_score(value, range[1], range[2], inverse)
    /\ UNCHANGED <<analyzeVars, heapVars>>

CallMovingAverage ==
    /\ op = "idle"
    /\ \E values \in AveragedValues, window \in Windows :
          /\ op' = "_calculate_moving_average"
          /\ arg' = [values |-> values, window |-> window]
          /\ res' = _calculate_moving_average(values, window)
    /\ UNCHANGED <<analyzeVars, heapVars>>

CallRequest ==
    /\ op = "idle"
    /\ \E responses \in RequestScripts :
          /\ op' = "_request"
          /\ arg' = [responses |-> responses, body |-> <<"item">>]
          /\ res' = _request(responses, <<"item">>)
    /\ UNCHANGED <<analyzeVars, heapVars>>

CallPaginate ==
    /\ op = "idle"
    /\ \E items \in PagedItems, responses \in PagedResponses, max_items \in PagedLimits :
          /\ op' = "_paginate"
          /\ arg' = [items |-> items, responses |-> responses, max_items |-> max_items]
          /\ res' = _paginate(items, responses, max_items)
    /\ UNCHANGED <<analyzeVars, heapVars>>

CallCommitTrend ==
    /\ op = "idle"
    /\ \E commits \in CommitLists : \E now \in NowsFor(commits) :
          /\ op' = "compute_commit_trend"
          /\ arg' = [commits |-> commits, now |-> now]
          /\ res' = compute_commit_trend(commits, now)
    /\ UNCHANGED <<analyzeVars, heapVars>>

CallIssueTrend ==
    /\ op = "idle"
    /\ \E issues \in IssueLists : \E now \in NowsFor(issues) :
          /\ op' = "compute_issue_trend"
          /\ arg' = [issues |-> issues, now |-> now]
          /\ res' = compute_issue_trend(issues, now)
    /\ UNCHANGED <<analyzeVars, heapVars>>

CallWeightedScore ==
    /\ op = "idle"
    /\ \E scores \in ScoreMaps : \E weights \in WeightArgs :
          /\ op' = "calculate_weighted_score"
          /\ arg' = [scores |-> scores, weights |-> weights]
          /\ res' = calculate_weighted_score(scores, weights)
    /\ UNCHANGED <<analyzeVars, heapVars>>

CallGetGrade ==
    /\ op = "idle"
    /\ \E score \in GradeInputs :
          /\ op' = "get_grade"
          /\ arg' = [score |-> score]
          /\ res' = get_grade(score)
    /\ UNCHANGED <<analyzeVars, heapVars>>

CallAdjustWeights ==
    /\ op = "idle"
    /\ \E custom_weights \in CustomWeights :
          /\ op' = "adjust_weights"
          /\ arg' = [custom_weights |-> custom_weights]
          /\ res' = adjust_weights(custom_weights)
    /\ UNCHANGED <<analyzeVars, heapVars>>

CallImprovementPotential ==
    /\ op = "idle"
    /\ \E scores \in ScoreMaps : \E weights \in WeightArgs :
          /\ op' = "calculate_improvement_potential"
          /\ arg' = [scores |-> scores, weights |-> weights]
          /\ res' = calculate_improvement_potential(scores, weights)
    /\ UNCHANGED <<analyzeVars, heapVars>>

CallTrendDirection ==
    /\ op = "idle"
    /\ \E slope \in SlopeInputs :
          /\ op' = "_get_trend_direction"
          /\ arg' = [slope |-> slope]
          /\ res' = _get_trend_direction(slope)
    /\ UNCHANGED <<analyzeVars, heapVars>>

CallTrendStrength ==
    /\ op = "idle"
    /\ \E r_squared \in RSquaredInputs :
          /\ op' = "_get_trend_strength"
          /\ arg' = [r_squared |-> r_squared]
          /\ res' = _get_trend_strength(r_squared)
    /\ UNCHANGED <<analyzeVars, heapVars>>

\* x = list(range(len(y))), as both trend functions call it
CallLinearRegression ==
    /\ op = "idle"
    /\ \E y \in RegressionSeries :
          /\ op' = "_calculate_linear_regression"
          /\ arg' = [x |-> RangeList(Len(y)), y |-> y]
          /\ res' \in RegressionOutcomes(RangeList(Len(y)), y)
    /\ UNCHANGED <<analyzeVars, heapVars>>

CallHealthIndicator ==
    /\ op = "idle"
    /\ \E commit_trend \in CommitTrendSummaries : \E issue_trend \in IssueTrendSummaries :
          /\ op' = "_calculate_health_indicator"
          /\ arg' = [commit_trend |-> commit_trend, issue_trend |-> issue_trend]
          /\ res' = _calculate_health_indicator(commit_trend, issue_trend)
    /\ UNCHANGED <<analyzeVars, heapVars>>

CallWeeklySummary ==
    /\ op = "idle"
    /\ \E commits \in WeeklyCommitLists : \E issues \in WeeklyIssueLists :
       \E now \in NowsFor(commits) :
          /\ op' = "compute_weekly_summary"
          /\ arg' = [commits |-> commits, issues |-> issues, now |-> now]
          /\ res' = compute_weekly_summary(commits, issues, now)
    /\ UNCHANGED <<analyzeVars, heapVars>>

\* the call returns and the client may call again
Return ==
    /\ op # "idle"
    /\ op' = "idle"
    /\ arg' = <<>>
    /\ res' = <<>>
    /\ UNCHANGED <<analyzeVars, heapVars>>

Next ==
    \/ CallCommitFrequency
    \/ CallIssueResolution
    \/ CallPRRejection
    \/ CallTestRatio
    \/ CallCommitTrend
    \/ CallIssueTrend
    \/ CallWeightedScore
    \/ CallGetGrade
    \/ CallAdjustWeights
    \/ CallImprovementPotential
    \/ CallTrendDirection
    \/ CallTrendStrength
    \/ CallLinearRegression
    \/ CallHealthIndicator
    \/ CallWeeklySummary
    \/ CallNormalizeScore
    \/ CallMovingAverage
    \/ CallRequest
    \/ CallPaginate
    \/ Return

Spec == Init /\ [][Next]_vars

-----------------------------------------------------------------------------
(* analyze_repository, run against a repository any number of times *)

Segment(name, git) == [name |-> name, git |-> git]

\* https://github.com/owner/repo, .../owner/repo.git, .../owner/repo/issues,
\* .../owner, https://gitlab.com/owner/repo, https://github.com//repo
Urls ==
    { [github |-> TRUE, path |-> <<Segment("owner", FALSE), Segment("repo", FALSE)>>],
      [github |-> TRUE, path |-> <<Segment("owner", FALSE), Segment("repo", TRUE)>>],
      [github |-> TRUE, path |-> <<Segment("owner", FALSE), Segment("repo", TRUE),
                                   Segment("issues", FALSE)>>],
      [github |-> TRUE, path |-> <<Segment("owner", FALSE)>>],
      [github |-> FALSE, path |-> <<Segment("owner", FALSE), Segment("repo", FALSE)>>],
      [github |-> TRUE, path |-> <<Segment("", FALSE), Segment("repo", FALSE)>>] }

\* the repository's collections, as GitHub sends them: n commits a tick
\* apart, n issues (every second one a pull request listed among the
\* issues) closed after i ticks, n pull requests alternately merged and
\* rejected, a tree of n test files, n source files and a directory
ServerCommits(n) == [i \in 1..n |-> Commit("nested", IsoZ(i))]
ServerIssues(n) ==
    [i \in 1..n |-> [pull_request |-> (i % 2 = 0)] @@ Issue("dict", "closed", IsoZ(0), IsoZ(i))]
ServerPullRequests(n) ==
    [i \in 1..n |-> IF i % 2 = 1 THEN PR("dict", "closed", "true", IsoZ(i))
                    ELSE PR("dict", "closed", "false", Null)]
ServerFiles(n) ==
    [i \in 1..(2 * n + 1) |->
        IF i = 2 * n + 1 THEN [type |-> "tree", path |-> <<"s", "r", "c">>]
        ELSE IF i % 2 = 1
        THEN [type |-> "blob", path |-> <<"t", "e", "s", "t", "_", "a", ".", "p", "y">>]
        ELSE [type |-> "blob", path |-> <<"a", ".", "p", "y">>]]

Servers ==
    { [repo_info |-> info,
       contributors |-> [i \in 1..(MaxContributors + 1) |-> i],
       commits |-> ServerCommits(c),
       issues |-> ServerIssues(n),
       pull_requests |-> ServerPullRequests(n),
       files |-> ServerFiles(f),
       languages |-> "info"] :
         info \in {"info", "empty"},
         c \in {0, PerPage + 1, MaxItems + 1},
         n \in {1, PerPage + 1},
         f \in {0, 1} }

\* the attempts of one request: the first one, and the ones after it
Script(first, rest) == [i \in 1..max_retries |-> IF i = 1 THEN first ELSE rest]

Scripts ==
    { Script("200", "200"), Script("timeout", "200"), Script("timeout", "timeout"),
      Script("500", "200"), Script("404", "200"), Script("connection_error", "200") }

\* the pages a paginated fetch can ask for
MaxPages == (MaxItems + PerPage - 1) \div PerPage

PageScripts == [1..MaxPages -> {Script("200", "200"), Script("timeout", "200"),
                                 Script("500", "200")}]

\* the clock while the metrics are computed
AnalysisNow == 4 * TicksPerDay

\* lines 473-478: the call, up to the parsing of the URL
Start ==
    /\ pc = "idle"
    /\ op = "idle"
    /\ \E url \in Urls, srv \in Servers :
          /\ repo_url' = url
          /\ server' = srv
          /\ data' = RepositoryData
          /\ IF parse_github_url(url) = NoMatch
             THEN /\ outcome' = [success |-> FALSE, error |-> "Gecersiz GitHub URL'si"]
                  /\ pc' = "done"
             ELSE /\ outcome' = NoOutcome
                  /\ pc' = "repo_info"
    /\ UNCHANGED <<failed, invoked>>
    /\ UNCHANGED <<pureVars, heapVars>>

\* fetch_repository, lines 382-385
FetchRepoInfo ==
    /\ pc = "repo_info"
    /\ \E responses \in Scripts :
          LET fetched == fetch_repo_info(responses, server)
          IN  /\ data' = [data EXCEPT !.repo_info = fetched.data,
                                      !.error = fetched.error]
              /\ pc' = IF fetched.error # "none" THEN "validate" ELSE "contributors"
              /\ failed' = IF RequestFailed(fetched) THEN failed \cup {"repo_info"}
                           ELSE failed
    /\ UNCHANGED <<repo_url, server, invoked, outcome>>
    /\ UNCHANGED <<pureVars, heapVars>>

\* line 388
FetchContributors ==
    /\ pc = "contributors"
    /\ \E responses \in PageScripts :
          LET fetched == fetch_contributors(responses, server)
          IN  /\ data' = [data EXCEPT !.contributors = fetched.items]
              /\ failed' = IF RequestFailed(fetched) THEN failed \cup {"contributors"}
                           ELSE failed
    /\ pc' = "commits"
    /\ UNCHANGED <<repo_url, server, invoked, outcome>>
    /\ UNCHANGED <<pureVars, heapVars>>

\* lines 391-392
FetchCommits ==
    /\ pc = "commits"
    /\ \E responses \in PageScripts :
          LET fetched == fetch_commits(responses, server)
          IN  /\ data' = [data EXCEPT !.commits = fetched.items]
              /\ failed' = IF RequestFailed(fetched) THEN failed \cup {"commits"}
                           ELSE failed
    /\ pc' = "issues"
    /\ UNCHANGED <<repo_url, server, invoked, outcome>>
    /\ UNCHANGED <<pureVars, heapVars>>

\* line 395
FetchIssues ==
    /\ pc = "issues"
    /\ \E responses \in PageScripts :
          LET fetched == fetch_issues(responses, server)
          IN  /\ data' = [data EXCEPT !.issues = fetched.items]
              /\ failed' = IF RequestFailed(fetched) THEN failed \cup {"issues"}
                           ELSE failed
    /\ pc' = "pull_requests"
    /\ UNCHANGED <<repo_url, server, invoked, outcome>>
    /\ UNCHANGED <<pureVars, heapVars>>

\* line 398
FetchPullRequests ==
    /\ pc = "pull_requests"
    /\ \E responses \in PageScripts :
          LET fetched == fetch_pull_requests(responses, server)
          IN  /\ data' = [data EXCEPT !.pull_requests = fetched.items]
              /\ failed' = IF RequestFailed(fetched) THEN failed \cup {"pull_requests"}
                           ELSE failed
    /\ pc' = "files"
    /\ UNCHANGED <<repo_url, server, invoked, outcome>>
    /\ UNCHANGED <<pureVars, heapVars>>

\* line 401
FetchFiles ==
    /\ pc = "files"
    /\ \E info \in Scripts, tree \in Scripts :
          LET fetched == fetch_files(<<info, tree>>, server)
          IN  /\ data' = [data EXCEPT !.files = fetched.items]
              /\ failed' = IF RequestFailed(fetched) THEN failed \cup {"files"}
                           ELSE failed
    /\ pc' = "languages"
    /\ UNCHANGED <<repo_url, server, invoked, outcome>>
    /\ UNCHANGED <<pureVars, heapVars>>

\* lines 404-406
FetchLanguages ==
    /\ pc = "languages"
    /\ \E responses \in Scripts :
          LET fetched == fetch_languages(responses, server)
          IN  /\ data' = [data EXCEPT !.languages = fetched.data]
              /\ failed' = IF RequestFailed(fetched) THEN failed \cup {"languages"}
                           ELSE failed
    /\ pc' = "validate"
    /\ UNCHANGED <<repo_url, server, invoked, outcome>>
    /\ UNCHANGED <<pureVars, heapVars>>

\* lines 488-492: the fetched data is not valid
Refuse ==
    /\ pc = "validate"
    /\ ~is_valid(data)
    /\ outcome' = [success |-> FALSE,
                   error |-> IF data.error # "none" THEN data.error
                             ELSE "Veri cekilemedi"]
    /\ pc' = "done"
    /\ UNCHANGED <<repo_url, server, data, failed, invoked>>
    /\ UNCHANGED <<pureVars, heapVars>>

\* lines 507-563: the metrics, the trends, the overall score and the result
Compute ==
    /\ pc = "validate"
    /\ is_valid(data)
    /\ LET metrics ==
               <<[name |-> "commit_frequency",
                  result |-> compute_commit_frequency(data.commits, AnalysisNow)],
                 [name |-> "issue_resolution",
                  result |-> compute_issue_resolution(data.issues, AnalysisNow)],
                 [name |-> "pr_rejection", result |-> compute_pr_rejection(data.pull_requests)],
                 [name |-> "test_ratio", result |-> compute_test_ratio(data.files)]>>
           trends ==
               [commit_trend |-> compute_commit_trend(data.commits, AnalysisNow),
                issue_trend |-> compute_issue_trend(data.issues, AnalysisNow)]
       IN  outcome' = [success |-> TRUE,
                       error |-> None,
                       repository |-> parse_github_url(repo_url),
                       contributors |-> data.contributors,
                       languages |-> data.languages,
                       stats |-> [total_commits |-> Len(data.commits),
                                  total_issues |-> Len(data.issues),
                                  total_prs |-> Len(data.pull_requests),
                                  total_files |-> Len(data.files)],
                       metrics |-> metrics,
                       trends |-> trends,
                       overall |-> compute_overall_score(metrics)]
    /\ invoked' = {"compute_commit_frequency", "compute_issue_resolution",
                   "compute_pr_rejection", "compute_test_ratio",
                   "compute_commit_trend", "compute_issue_trend",
                   "compute_overall_score"}
    /\ pc' = "done"
    /\ UNCHANGED <<repo_url, server, data, failed>>
    /\ UNCHANGED <<pureVars, heapVars>>

\* analyze_repository has returned; the next call starts afresh
Finish ==
    /\ pc = "done"
    /\ pc' = "idle"
    /\ repo_url' = NoUrl
    /\ server' = NoServer
    /\ data' = RepositoryData
    /\ failed' = {}
    /\ invoked' = {}
    /\ outcome' = NoOutcome
    /\ UNCHANGED <<pureVars, heapVars>>

NextAnalyze ==
    \/ Start
    \/ FetchRepoInfo
    \/ FetchContributors
    \/ FetchCommits
    \/ FetchIssues
    \/ FetchPullRequests
    \/ FetchFiles
    \/ FetchLanguages
    \/ Refuse
    \/ Compute
    \/ Finish

SpecAnalyze == Init /\ [][NextAnalyze]_vars

-----------------------------------------------------------------------------
(* Sequences of scoring calls on shared objects *)

\* the mappings handed over in a sequence of calls: at most one entry in a
\* scores mapping or in the weights given to adjust_weights, at most one in
\* the weights given to the other calls
HeapScoreMaps == {s \in ScoreMaps : Len(s) <= 1}
HeapWeightArgs == {w \in WeightArgs : w.given => DOMAIN w.map # WeightKeys}
HeapCustomWeights == {c \in CustomWeights : Cardinality(DOMAIN c) <= 1}

\* the metrics mapping whose entries carry the given scores
MetricsOf(scores) ==
    [i \in 1..Len(scores) |->
        [name |-> scores[i].name, result |-> [raw |-> Num(0), score |-> scores[i].score]]]

\* the caller hands over its objects, the call acts on them and returns
Called(fn, h, done) ==
    /\ heap' = done.heap
    /\ frame' = [fn |-> fn, scores |-> h.scores, weights |-> h.weights,
                 returned |-> done.returned, value |-> done.value]
    /\ UNCHANGED <<pureVars, analyzeVars>>

\* the objects once the caller has made its arguments
Handed(scores, weights) ==
    [heap EXCEPT !.scores = scores, !.weights = weights, !.fresh = NoObject]

WeightsHanded(weights) == IF weights.given THEN Live(weights.map) ELSE NoObject

HeapWeightedScore ==
    \E scores \in HeapScoreMaps, weights \in HeapWeightArgs :
        Called("calculate_weighted_score",
               Handed(Live(scores), WeightsHanded(weights)),
               WeightedScoreOn(Handed(Live(scores), WeightsHanded(weights))))

HeapAdjustWeights ==
    \E custom_weights \in HeapCustomWeights :
        Called("adjust_weights",
               Handed(NoObject, Live(custom_weights)),
               AdjustWeightsOn(Handed(NoObject, Live(custom_weights))))

HeapImprovementPotential ==
    \E scores \in HeapScoreMaps, weights \in HeapWeightArgs :
        Called("calculate_improvement_potential",
               Handed(Live(scores), WeightsHanded(weights)),
               ImprovementPotentialOn(Handed(Live(scores), WeightsHanded(weights))))

HeapOverallScore ==
    \E scores \in HeapScoreMaps :
        Called("compute_overall_score",
               Handed(Live(MetricsOf(scores)), NoObject),
               OverallScoreOn(Handed(Live(MetricsOf(scores)), NoObject)))

\* the caller writes into the mapping adjust_weights returned
ModifyReturned ==
    /\ frame.fn = "adjust_weights"
    /\ \E key \in WeightKeys :
          heap' = [heap EXCEPT ![frame.returned].content = Assign(@, key, Num(1))]
    /\ UNCHANGED <<frame, pureVars, analyzeVars>>

NextHeap ==
    \/ HeapWeightedScore
    \/ HeapAdjustWeights
    \/ HeapImprovementPotential
    \/ HeapOverallScore
    \/ ModifyReturned

SpecHeap == Init /\ [][NextHeap]_vars

-----------------------------------------------------------------------------
(* Claims about the metric computers *)

MetricComputers == {"compute_commit_frequency", "compute_issue_resolution",
                    "compute_pr_rejection", "compute_test_ratio"}
TrendFunctions == {"compute_commit_trend", "compute_issue_trend"}

Raised == "raised" \in DOMAIN res

\* the list handed to the call
InputList ==
    CASE op \in {"compute_commit_frequency", "compute_commit_trend"} -> arg.commits
      [] op \in {"compute_issue_resolution", "compute_issue_trend"} -> arg.issues
      [] op = "compute_pr_rejection" -> arg.prs
      [] op = "compute_test_ratio" -> arg.files

\* A timestamp field that is missing or a UTC timestamp as GitHub sends it
CleanStamp(v) == v.k \in {"absent", "iso_z"}

\* A record that is well formed or merely lacks fields: no state or author
\* key holding null, timestamps (where present) as GitHub sends them
CleanRecord(r) ==
    /\ r.shape # "author_null"
    /\ "state" \in DOMAIN r => r.state # "null"
    /\ "date" \in DOMAIN r => CleanStamp(r.date)
    /\ "created_at" \in DOMAIN r => CleanStamp(r.created_at) /\ CleanStamp(r.closed_at)

\* C1: each metric computer, on an empty list, a well-formed list or a list of
\* records with missing fields, returns a result whose score lies in
\* [0, 100]; and whatever the input, a result that is returned has its score
\* in [0, 100].
C1_ScoreInRange ==
    op \in MetricComputers =>
        /\ (\A i \in 1..Len(InputList) : CleanRecord(InputList[i])) => ~Raised
        /\ ~Raised => RLe(Num(0), res.score) /\ RLe(res.score, Num(100))

\* a burst of more than five commits a day: the score is capped at 100
C1_Witness ==
    /\ op = "compute_commit_frequency"
    /\ ~Raised
    /\ "time_span_days" \in DOMAIN res
    /\ RLt(Num(5), res.raw)
    /\ res.score = Num(100)

\* C2: no metric computer and no trend function raises, whatever the records
\* (non-dict entries, missing keys, null values, unparseable timestamps,
\* timestamps mixing offset-aware and naive forms).
C2_NeverRaises == op \in MetricComputers \cup TrendFunctions => ~Raised

\* the call of the function named op on another list, at another clock reading
Recompute(list, now) ==
    CASE op = "compute_commit_frequency" -> compute_commit_frequency(list, now)
      [] op = "compute_commit_trend" -> compute_commit_trend(list, now)
      [] op = "compute_issue_resolution" -> compute_issue_resolution(list, now)
      [] op = "compute_issue_trend" -> compute_issue_trend(list, now)

PermutationsOf(list) ==
    {[i \in 1..Len(list) |-> list[f[i]]] : f \in Permutations(1..Len(list))}

\* C5: compute_commit_frequency, compute_commit_trend, compute_issue_resolution
\* and compute_issue_trend return the same result on every permutation of
\* their input list and on a second call (made at a later clock reading).
C5_OrderAndRepetition ==
    op \in {"compute_commit_frequency", "compute_commit_trend",
            "compute_issue_resolution", "compute_issue_trend"} =>
        /\ \A p \in PermutationsOf(InputList) : Recompute(p, arg.now) = res
        /\ \A later \in NowsFor(InputList) :
               later >= arg.now => Recompute(InputList, later) = res

-----------------------------------------------------------------------------
(* Claims about analyze_repository *)

\* the URL does not hold github.com/ followed by two non-empty segments
UrlUnparsable ==
    \/ ~repo_url.github
    \/ Len(repo_url.path) < 2
    \/ \E i \in 1..2 : repo_url.path[i].name = ""

\* fetch_repository has returned data that is not valid
FetchedInvalid ==
    /\ pc \in {"validate", "done"}
    /\ ~UrlUnparsable
    /\ data.error # "none" \/ data.repo_info = "empty"

Returned == pc = "done"

\* C3: when the URL cannot be parsed or the fetched RepositoryData is not
\* valid (error set, or empty repo_info), analyze_repository returns
\* {success: False, error: <message>} and no metric, trend or overall-score
\* function is invoked; a result with success True holds metrics, trends and
\* overall.
C3_RefusesFailedFetch ==
    /\ (UrlUnparsable \/ FetchedInvalid) =>
          /\ invoked = {}
          /\ Returned => /\ DOMAIN outcome = {"success", "error"}
                         /\ outcome.success = FALSE
                         /\ outcome.error \notin {None, "none", ""}
    /\ (Returned /\ outcome.success) =>
          /\ {"metrics", "trends", "overall"} \subseteq DOMAIN outcome
          /\ invoked # {}

\* the repository request answered 200 with an empty body: no error, but
\* nothing in repo_info, and the analysis is refused
C3_Witness ==
    /\ Returned
    /\ ~UrlUnparsable
    /\ data.error = "none"
    /\ data.repo_info = "empty"
    /\ outcome.success = FALSE
    /\ invoked = {}

\* what each collection holds when every request succeeds
CompleteCollection(c) ==
    CASE c = "commits" -> Truncate(server.commits, MaxItems)
      [] c = "issues" -> SelectSeq(Truncate(server.issues, MaxItems), NotPullRequest)
      [] c = "pull_requests" -> Truncate(server.pull_requests, MaxItems)
      [] c = "files" ->
            LET blobs == SelectSeq(server.files, IsBlob)
            IN  [i \in 1..Len(blobs) |-> FileEntry("str", blobs[i].path)]

\* C4: in every run of analyze_repository the metric and trend functions run
\* on complete collections only: once they have been invoked, no request for
\* commits, issues, pull requests or files has failed and each of these
\* collections is the complete one.
C4_CompleteCollections ==
    invoked # {} =>
        \A c \in {"commits", "issues", "pull_requests", "files"} :
            /\ c \notin failed
            /\ data[c] = CompleteCollection(c)

-----------------------------------------------------------------------------
(* Claims about the scoring functions *)

\* the weight mapping in force, and the weight the claims give one metric
WeightsInForce == IF arg.weights.given THEN arg.weights.map ELSE DEFAULT_WEIGHTS

EqualShareWeight(i) ==
    IF arg.scores[i].name \in DOMAIN WeightsInForce
    THEN WeightsInForce[arg.scores[i].name]
    ELSE R(1, Len(arg.scores))

ExpectedSum ==
    RSum([i \in 1..Len(arg.scores) |-> RMul(arg.scores[i].score, EqualShareWeight(i))])

ExpectedTotal == RSum([i \in 1..Len(arg.scores) |-> EqualShareWeight(i)])

C7_EqualShareFallback ==
    (op = "calculate_weighted_score" /\ arg.scores # <<>>) =>
        res = IF ExpectedTotal = Num(0) THEN Num(0)
              ELSE IF RLe(ExpectedTotal, Num(1)) THEN ExpectedSum
              ELSE RDiv(ExpectedSum, ExpectedTotal)

\* two metrics, one the mapping does not name and one it gives weight 0:
\* the result is half the score of the first
C7_Witness ==
    /\ op = "calculate_weighted_score"
    /\ Len(arg.scores) = 2
    /\ arg.weights.given
    /\ \E i, j \in 1..2 :
          /\ arg.scores[i].name \notin DOMAIN arg.weights.map
          /\ arg.scores[j].name \in DOMAIN arg.weights.map
          /\ arg.weights.map[arg.scores[j].name] = Num(0)
          /\ arg.scores[j].score = Num(100)
          /\ arg.scores[i].score = Num(68)
    /\ res = Num(34)

\* the grade the thresholds give, written out
ExpectedGrade(score) ==
    CASE RLe(Num(95), score) -> "A+"
      [] RLe(Num(90), score) /\ RLt(score, Num(95)) -> "A"
      [] RLe(Num(85), score) /\ RLt(score, Num(90)) -> "A-"
      [] RLe(Num(80), score) /\ RLt(score, Num(85)) -> "B+"
      [] RLe(Num(75), score) /\ RLt(score, Num(80)) -> "B"
      [] RLe(Num(70), score) /\ RLt(score, Num(75)) -> "B-"
      [] RLe(Num(65), score) /\ RLt(score, Num(70)) -> "C+"
      [] RLe(Num(60), score) /\ RLt(score, Num(65)) -> "C"
      [] RLe(Num(55), score) /\ RLt(score, Num(60)) -> "C-"
      [] RLe(Num(50), score) /\ RLt(score, Num(55)) -> "D+"
      [] RLe(Num(45), score) /\ RLt(score, Num(50)) -> "D"
      [] RLe(Num(40), score) /\ RLt(score, Num(45)) -> "D-"
      [] RLt(score, Num(40)) -> "F"

\* the place of a grade in the scale, F lowest
GradeRank(grade) ==
    CHOOSE i \in 1..Len(GRADE_THRESHOLDS) :
        GRADE_THRESHOLDS[Len(GRADE_THRESHOLDS) + 1 - i].grade = grade

\* C8: get_grade returns the first grade, in descending order of threshold,
\* whose threshold the score meets or exceeds; F for every score below 0; and
\* a higher score never gets a lower grade.
C8_GetGrade ==
    op = "get_grade" =>
        /\ res = ExpectedGrade(arg.score)
        /\ RLt(arg.score, Num(0)) => res = "F"
        /\ \A i \in 1..(Len(GRADE_THRESHOLDS) - 1) :
               GRADE_THRESHOLDS[i].threshold > GRADE_THRESHOLDS[i + 1].threshold
        /\ \A higher \in GradeInputs :
               RLe(arg.score, higher) => GradeRank(res) <= GradeRank(get_grade(higher))

\* a score exactly on the top threshold
C8_Witness == op = "get_grade" /\ arg.score = Num(95) /\ res = "A+"

\* C9: for a non-empty mapping with non-zero total adjust_weights returns a
\* mapping over the same keys whose values sum to 1 and keep the input's
\* proportions; for an empty mapping or a total of 0 it returns the default
\* weights, 0.25 for each of the four metrics.
C9_AdjustWeights ==
    op = "adjust_weights" =>
        LET custom == arg.custom_weights
            total == SumOver(custom, DOMAIN custom)
        IN  IF DOMAIN custom = {} \/ total = Num(0)
            THEN /\ DOMAIN res = MetricNames
                 /\ \A m \in MetricNames : res[m] = R(1, 4)
            ELSE /\ DOMAIN res = DOMAIN custom
                 /\ SumOver(res, DOMAIN res) = Num(1)
                 /\ \A k, j \in DOMAIN custom :
                        RMul(res[k], custom[j]) = RMul(res[j], custom[k])

\* weights 1/4 and 1/2 become 1/3 and 2/3
C9_Witness ==
    /\ op = "adjust_weights"
    /\ DOMAIN arg.custom_weights = {"commit_frequency", "custom"}
    /\ arg.custom_weights["commit_frequency"] = R(1, 4)
    /\ arg.custom_weights["custom"] = R(1, 2)
    /\ res["commit_frequency"] = R(1, 3)
    /\ res["custom"] = R(2, 3)

\* the weight calculate_improvement_potential gives the metric of entry e
ImprovementWeight(e) ==
    IF e.name \in DOMAIN WeightsInForce THEN WeightsInForce[e.name] ELSE R(1, 4)

\* the quantity (100 - score) * weight of entry e
Impact(e) == RMul(RSub(Num(100), e.current_score), ImprovementWeight(e))

ExpectedPriority(e) ==
    IF RLt(Num(15), Impact(e)) THEN "Yuksek"
    ELSE IF RLt(Num(8), Impact(e)) THEN "Orta"
    ELSE "Dusuk"

OneEntryPerMetric ==
    /\ Len(res) = Len(arg.scores)
    /\ \A i \in 1..Len(arg.scores) :
          \E j \in 1..Len(res) :
              /\ res[j].name = arg.scores[i].name
              /\ res[j].current_score = arg.scores[i].score

DescendingGain ==
    \A i, j \in 1..Len(res) :
        i < j => RLe(res[j].potential_gain, res[i].potential_gain)

\* C10 (as the code has it): calculate_improvement_potential returns one entry
\* per metric in scores, with potential_gain = (100 - score) * weight rounded
\* to two decimals (weight 0.25 for a metric the mapping does not name), the
\* entries ordered by potential_gain descending, and the priority of each
\* entry high when the unrounded quantity is > 15, medium when > 8, low
\* otherwise.
C10_ImprovementPotential ==
    op = "calculate_improvement_potential" =>
        /\ OneEntryPerMetric
        /\ \A j \in 1..Len(res) :
              /\ res[j].potential_gain = Round(Impact(res[j]), 2)
              /\ res[j].priority = ExpectedPriority(res[j])
        /\ DescendingGain

\* two entries returned in the reverse of the order given, the first with a
\* gain that had to be rounded
C10_Witness ==
    /\ op = "calculate_improvement_potential"
    /\ Len(res) = 2
    /\ res[1].name = arg.scores[2].name
    /\ RLt(res[2].potential_gain, res[1].potential_gain)
    /\ res[1].potential_gain # Impact(res[1])
    /\ res[1].priority = "Yuksek"

\* C10 (as the specification has it): one entry per metric with potential_gain
\* equal to (100 - score) * weight, ordered by potential_gain descending,
\* priority high when that quantity is > 15, medium when > 8, low otherwise.
C10_ExactGain ==
    op = "calculate_improvement_potential" =>
        /\ OneEntryPerMetric
        /\ \A j \in 1..Len(res) :
              /\ res[j].potential_gain = Impact(res[j])
              /\ res[j].priority = ExpectedPriority(res[j])
        /\ DescendingGain

-----------------------------------------------------------------------------
(* Claims about the health indicator and the weekly summary *)

\* the direction and strength a trend handed to the indicator carries
\* ("none" when it has no such key)
GivenDirection(trend) ==
    IF "trend_direction" \in DOMAIN trend THEN trend.trend_direction ELSE "none"
GivenStrength(trend) ==
    IF "trend_strength" \in DOMAIN trend THEN trend.trend_strength ELSE "none"

Clamp(n, low, high) == IF n < low THEN low ELSE IF n > high THEN high ELSE n

ExpectedHealthScore ==
    LET rising == GivenDirection(arg.commit_trend) = "artan"
        falling == GivenDirection(arg.commit_trend) = "azalan"
        improving == GivenDirection(arg.issue_trend) = "iyilesiyor"
        worsening == GivenDirection(arg.issue_trend) = "kotulesiyor"
        commit_strong == GivenStrength(arg.commit_trend) = "guclu"
        issue_strong == GivenStrength(arg.issue_trend) = "guclu"
    IN  Clamp(50 + (IF rising THEN 15 ELSE 0) - (IF falling THEN 10 ELSE 0)
                 + (IF improving THEN 15 ELSE 0) - (IF worsening THEN 15 ELSE 0)
                 + (IF rising /\ commit_strong THEN 10 ELSE 0)
                 + (IF improving /\ issue_strong THEN 10 ELSE 0),
              0, 100)

\* C11: for every combination of commit trend (direction, strength) and issue
\* trend (direction, strength) the health score is
\* clamp(50 + [15 rising, -10 falling] + [15 improving, -15 worsening]
\* + [10 rising and strong] + [10 improving and strong], 0, 100), and the
\* status is healthy from 70, stable from 50, caution from 30, critical below.
C11_HealthIndicator ==
    op = "_calculate_health_indicator" =>
        /\ res.score = ExpectedHealthScore
        /\ res.status = (CASE res.score >= 70 -> "saglikli"
                           [] res.score >= 50 /\ res.score < 70 -> "stabil"
                           [] res.score >= 30 /\ res.score < 50 -> "dikkat"
                           [] OTHER -> "kritik")

\* nothing moves: the score stays on the threshold 50, which is still stable
C11_Witness ==
    /\ op = "_calculate_health_indicator"
    /\ GivenDirection(arg.commit_trend) = "sabit"
    /\ GivenDirection(arg.issue_trend) = "sabit"
    /\ res.score = 50
    /\ res.status = "stabil"

\* the ISO week of a day: the ISO year and week number are those of the
\* Thursday of its Monday-to-Sunday week
IsoWeek(day) ==
    LET thursday == CalendarDate(day - Weekday(day) + 3)
    IN  [year |-> thursday.year, week |-> thursday.yday \div 7 + 1]

\* the commits of the first n days of the series that fall in an ISO week
RECURSIVE IsoWeekTotal(_, _, _)
IsoWeekTotal(series, iso_week, n) ==
    IF n = 0 THEN 0
    ELSE IsoWeekTotal(series, iso_week, n - 1)
         + (IF IsoWeek(series[n].date) = iso_week THEN series[n].count ELSE 0)

RECURSIVE SeriesTotal(_, _)
SeriesTotal(series, n) ==
    IF n = 0 THEN 0 ELSE SeriesTotal(series, n - 1) + series[n].count

RECURSIVE WeeklyTotal(_, _)
WeeklyTotal(weeks, n) ==
    IF n = 0 THEN 0 ELSE WeeklyTotal(weeks, n - 1) + weeks[n].commits

\* C12: compute_weekly_summary groups the daily commit series into ISO-week
\* buckets: every day of the series is assigned to the bucket of the ISO week
\* (ISO year and ISO week number) that contains it, each bucket's commits is
\* the sum of the counts of its days, and the weekly totals add up to the
\* total of the daily counts.
C12_IsoWeekBuckets ==
    (op = "compute_weekly_summary" /\ ~Raised) =>
        LET series == res.commit_trend.time_series
            weeks == res.weekly_commits
        IN  /\ \A i \in 1..Len(series) :
                  \E j \in 1..Len(weeks) : weeks[j].week = IsoWeek(series[i].date)
            /\ \A j \in 1..Len(weeks) :
                  weeks[j].commits = IsoWeekTotal(series, weeks[j].week, Len(series))
            /\ WeeklyTotal(weeks, Len(weeks)) = SeriesTotal(series, Len(series))

-----------------------------------------------------------------------------
(* Claims about the trend functions *)

\* the commits of the call that carry a date: a string under one of the
\* three recognised keys
HasDate(commit) ==
    /\ commit.shape \in {"nested", "flat_date", "flat_created"}
    /\ commit.date.k \notin {"absent", "null"}

DatedIndexes == {i \in 1..Len(arg.commits) : HasDate(arg.commits[i])}

DateAt(i) == _parse_datetime(arg.commits[i].date, arg.now)

\* the calendar days on which the dated commits fall
CommitDays == {DayOf(DateAt(i)) : i \in DatedIndexes}

LeastOf(S) == CHOOSE n \in S : \A m \in S : n <= m
GreatestOf(S) == CHOOSE n \in S : \A m \in S : n >= m

\* C13: for any commit list with at least 2 dated commits the time_series of
\* compute_commit_trend is gap-free: exactly one point for every calendar day
\* from the earliest to the latest commit date inclusive, in ascending date
\* order, each count the number of commits dated that day (0 for silent
\* days), the counts summing to the number of dated commits.
C13_GapFreeSeries ==
    (op = "compute_commit_trend" /\ ~Raised /\ Cardinality(DatedIndexes) >= 2) =>
        LET series == res.time_series
        IN  /\ Len(series) = GreatestOf(CommitDays) - LeastOf(CommitDays) + 1
            /\ \A i \in 1..Len(series) :
                  /\ series[i].date = LeastOf(CommitDays) + i - 1
                  /\ series[i].count =
                        Cardinality({k \in DatedIndexes : DayOf(DateAt(k)) = series[i].date})
            /\ SeriesTotal(series, Len(series)) = Cardinality(DatedIndexes)

ExpectedDirection(slope) ==
    CASE RLt(R(1, 100), slope) -> "artan"
      [] RLt(slope, R(-1, 100)) -> "azalan"
      [] OTHER -> "sabit"

ExpectedStrength(r_squared) ==
    CASE RLe(R(7, 10), r_squared) -> "guclu"
      [] RLt(r_squared, R(7, 10)) /\ RLe(R(4, 10), r_squared) -> "orta"
      [] RLt(r_squared, R(4, 10)) /\ RLe(R(2, 10), r_squared) -> "zayif"
      [] OTHER -> "belirsiz"

\* C14: the classification follows from the regression alone: the commit
\* trend is rising if slope > 0.01, falling if slope < -0.01, else flat (a
\* slope of exactly 0.01 or -0.01 is flat); the strength is strong if
\* r_squared >= 0.7, moderate if >= 0.4, weak if >= 0.2, else inconclusive.
C14_TrendClassification ==
    /\ op = "_get_trend_direction" => res = ExpectedDirection(arg.slope)
    /\ op = "_get_trend_strength" => res = ExpectedStrength(arg.r_squared)
    /\ (op = "compute_commit_trend" /\ ~Raised /\ "daily_values" \in DOMAIN res) =>
          /\ res.trend_direction = ExpectedDirection(res.regression.slope)
          /\ res.trend_strength = ExpectedStrength(res.regression.r_squared)

\* a slope of exactly 0.01 is flat
C14_Witness ==
    /\ op = "_get_trend_direction"
    /\ arg.slope = R(1, 100)
    /\ res = "sabit"

\* the issues of the call that count as resolved: dicts whose state is
\* "closed" in any case, with both timestamps
IsResolved(issue) ==
    /\ issue.shape = "dict"
    /\ issue.state \in {"closed", "CLOSED"}
    /\ issue.created_at.k \notin {"absent", "null"}
    /\ issue.closed_at.k \notin {"absent", "null"}

ResolvedIndexes == {i \in 1..Len(arg.issues) : IsResolved(arg.issues[i])}

ClosedAt(i) == _parse_datetime(arg.issues[i].closed_at, arg.now).t
CreatedAt(i) == _parse_datetime(arg.issues[i].created_at, arg.now).t

\* max(0, closed - created) in days
DurationDays(i) ==
    IF ClosedAt(i) <= CreatedAt(i) THEN Num(0)
    ELSE R(ClosedAt(i) - CreatedAt(i), TicksPerDay)

\* the place of a resolved issue in the order of closing (ties in the order
\* of the list)
RankOf(i) ==
    Cardinality({j \in ResolvedIndexes :
                    \/ ClosedAt(j) < ClosedAt(i)
                    \/ ClosedAt(j) = ClosedAt(i) /\ j <= i})

ValuesByClosing ==
    [p \in 1..Cardinality(ResolvedIndexes) |->
        DurationDays(CHOOSE i \in ResolvedIndexes : RankOf(i) = p)]

\* C15: in compute_issue_trend the direction is inverted relative to the commit
\* trend: over the resolution-day values ordered by closing date, a slope
\* < -0.01 is improving, a slope > 0.01 worsening, anything else flat; a
\* series is never classified improving while its slope is positive.
C15_IssueDirectionInverted ==
    (op = "compute_issue_trend" /\ ~Raised /\ "statistics" \in DOMAIN res) =>
        /\ res.regression =
              _calculate_linear_regression(RangeList(Cardinality(ResolvedIndexes)),
                                           ValuesByClosing)
        /\ res.trend_direction =
              (CASE RLt(res.regression.slope, R(-1, 100)) -> "iyilesiyor"
                 [] RLt(R(1, 100), res.regression.slope) -> "kotulesiyor"
                 [] OTHER -> "sabit")
        /\ ~(res.trend_direction = "iyilesiyor" /\ RLt(Num(0), res.regression.slope))

\* resolution times that shrink from one closing to the next
C15_Witness ==
    /\ op = "compute_issue_trend"
    /\ ~Raised
    /\ "statistics" \in DOMAIN res
    /\ RLt(res.regression.slope, Num(0))
    /\ res.trend_direction = "iyilesiyor"

\* the fixed result: flat, inconclusive, a regression of zeros and one of
\* the explanatory messages
IsShortCircuit(r) ==
    /\ r.trend_direction = "sabit"
    /\ r.trend_strength = "belirsiz"
    /\ r.regression = [slope |-> Num(0), intercept |-> Num(0), r_squared |-> Num(0)]
    /\ r.summary \in {"Yeterli commit verisi yok.",
                      "Trend analizi icin yeterli veri yok.",
                      "Yeterli issue verisi yok.",
                      "Trend analizi icin yeterli cozulmus issue yok."}

\* C16: degenerate inputs short-circuit: compute_commit_trend on an empty list
\* or a list with fewer than 2 dated commits, and compute_issue_trend on an
\* empty list or a list with fewer than 2 resolved issues, return direction
\* flat, strength inconclusive and a regression of zeros together with an
\* explanatory summary, and nothing of what the regression path returns.
C16_DegenerateShortCircuit ==
    /\ (op = "compute_commit_trend" /\ ~Raised /\ Cardinality(DatedIndexes) < 2) =>
          /\ IsShortCircuit(res)
          /\ DOMAIN res = {"time_series", "moving_average", "regression",
                           "trend_direction", "trend_strength", "summary"}
    /\ (op = "compute_issue_trend" /\ ~Raised /\ Cardinality(ResolvedIndexes) < 2) =>
          /\ IsShortCircuit(res)
          /\ DOMAIN res = {"resolution_series", "moving_average", "regression",
                           "trend_direction", "trend_strength", "summary"}

\* a full list of which one commit only carries a date
C16_Witness ==
    /\ op = "compute_commit_trend"
    /\ ~Raised
    /\ Len(arg.commits) = MaxLen
    /\ Cardinality(DatedIndexes) = 1
    /\ res.summary = "Trend analizi icin yeterli veri yok."
    /\ Len(res.time_series) = 1

StrictlyIncreasing(y) == \A i \in 1..(Len(y) - 1) : RLt(y[i], y[i + 1])

\* what the regression can return for the series of the call read backwards
Backwards == RegressionOutcomes(arg.x, Reverse(arg.y))

-----------------------------------------------------------------------------
(* Claims about the commit frequency and the issue resolution *)

\* the whole days from the earliest to the latest dated commit, at least 1
SpanDays ==
    LET instants == {DateAt(i).t : i \in DatedIndexes}
        whole == (GreatestOf(instants) - LeastOf(instants)) \div TicksPerDay
    IN  IF whole < 1 THEN 1 ELSE whole

CommitRate == R(Len(arg.commits), SpanDays)

C19_FrequencyFallback ==
    /\ (op = "compute_commit_frequency" /\ arg.commits = <<>>) =>
          res = [raw |-> Num(0), score |-> Num(0), total_commits |-> 0]
    /\ (/\ op = "compute_commit_frequency"
        /\ arg.commits # <<>>
        /\ ~Raised
        /\ Cardinality(DatedIndexes) < 2) =>
          res = [raw |-> Num(1), score |-> Num(25), total_commits |-> Len(arg.commits)]

\* a full list without a single date
C19_Witness ==
    /\ op = "compute_commit_frequency"
    /\ Len(arg.commits) = MaxLen
    /\ DatedIndexes = {}
    /\ res = [raw |-> Num(1), score |-> Num(25), total_commits |-> MaxLen]

\* the durations of the resolved issues among the first n, added up
RECURSIVE DurationTotal(_)
DurationTotal(n) ==
    IF n = 0 THEN Num(0)
    ELSE RAdd(DurationTotal(n - 1),
              IF n \in ResolvedIndexes THEN DurationDays(n) ELSE Num(0))

MeanDuration == RDiv(DurationTotal(Len(arg.issues)), Num(Cardinality(ResolvedIndexes)))

\* C20: compute_issue_resolution counts as resolved exactly the issues with
\* state closed (in any case) and both created_at and closed_at present; each
\* contributes max(0, closed - created) in days; if none is resolved the score
\* is the neutral 50 with resolved_count 0 and total_issues = len(issues);
\* otherwise raw is the mean of those durations and score the inverted
\* normalization over [0, 30] days (0 days gives 100, 30 or more gives 0).
C20_IssueResolution ==
    (op = "compute_issue_resolution" /\ ~Raised) =>
        /\ res.resolved_count = Cardinality(ResolvedIndexes)
        /\ res.total_issues = Len(arg.issues)
        /\ ResolvedIndexes = {} => res.score = Num(50)
        /\ ResolvedIndexes # {} =>
              /\ res.raw = MeanDuration
              /\ res.score = _normalize_score(MeanDuration, Num(0), Num(30), TRUE)
              /\ MeanDuration = Num(0) => res.score = Num(100)
              /\ RLe(Num(30), MeanDuration) => res.score = Num(0)

\* C20, as the code has it: raw is the mean rounded to two decimals.
C20_IssueResolutionRounded ==
    (op = "compute_issue_resolution" /\ ~Raised) =>
        /\ res.resolved_count = Cardinality(ResolvedIndexes)
        /\ res.total_issues = Len(arg.issues)
        /\ ResolvedIndexes = {} => res.score = Num(50)
        /\ ResolvedIndexes # {} =>
              /\ res.raw = Round(MeanDuration, 2)
              /\ res.score = _normalize_score(MeanDuration, Num(0), Num(30), TRUE)
              /\ MeanDuration = Num(0) => res.score = Num(100)
              /\ RLe(Num(30), MeanDuration) => res.score = Num(0)

\* a mean with more than two decimals
C20_Witness ==
    /\ op = "compute_issue_resolution"
    /\ ~Raised
    /\ Cardinality(ResolvedIndexes) = MaxLen
    /\ res.raw # MeanDuration

-----------------------------------------------------------------------------
(* Claims about the pull-request rejection and the test ratio *)

StateOf(pr) == IF pr.state = "CLOSED" THEN "closed" ELSE pr.state

IsMergedPR(pr) ==
    /\ pr.shape = "dict"
    /\ StateOf(pr) # "open"
    /\ (pr.merged = "true" \/ pr.merged_at.k \in {"iso_z", "iso_naive", "iso_offset", "garbage"})

IsOpenPR(pr) == pr.shape = "dict" /\ StateOf(pr) = "open"

IsRejectedPR(pr) == pr.shape = "dict" /\ StateOf(pr) = "closed" /\ ~IsMergedPR(pr)

OpenPRs == {i \in 1..Len(arg.prs) : IsOpenPR(arg.prs[i])}
MergedPRs == {i \in 1..Len(arg.prs) : IsMergedPR(arg.prs[i])}
RejectedPRs == {i \in 1..Len(arg.prs) : IsRejectedPR(arg.prs[i])}
ClosedPRs == MergedPRs \cup RejectedPRs

RejectionRate == R(Cardinality(RejectedPRs), Cardinality(ClosedPRs))

\* 100 at no rejection, falling in a straight line to 0 at one half
RejectionScore ==
    IF RLe(R(1, 2), RejectionRate) THEN Num(0)
    ELSE Round(RMul(Num(100), RSub(Num(1), RMul(Num(2), RejectionRate))), 2)

\* what C21 says of every call but the value of raw
PRCounts ==
    /\ OpenPRs \cap MergedPRs = {}
    /\ OpenPRs \cap RejectedPRs = {}
    /\ MergedPRs \cap RejectedPRs = {}
    /\ res.total = Len(arg.prs)
    /\ Cardinality(OpenPRs) + Cardinality(ClosedPRs) <= res.total
    /\ ClosedPRs = {} => res.score = Num(50)
    /\ ClosedPRs # {} =>
          /\ res.open = Cardinality(OpenPRs)
          /\ res.merged = Cardinality(MergedPRs)
          /\ res.rejected = Cardinality(RejectedPRs)
          /\ res.score = RejectionScore
          /\ RejectedPRs = {} => res.score = Num(100)
          /\ RLe(R(1, 2), RejectionRate) => res.score = Num(0)

PathAt(i) == FilePath(arg.files[i])

\* where the last dot of a path stands, 0 if it has none
LastDot(path) ==
    LET dots == {i \in 1..Len(path) : path[i] = "."}
    IN  IF dots = {} THEN 0 ELSE GreatestOf(dots)

\* the extension of a path, in lower case: from its last dot onwards
Extension(path) ==
    IF LastDot(path) = 0 THEN <<>> ELSE LowerStr(SubSeq(path, LastDot(path), Len(path)))

CodeFiles == {i \in 1..Len(arg.files) : Extension(PathAt(i)) \in code_extensions}
TestFiles == {i \in CodeFiles : test_regex_search(PathAt(i))}

TestShare == R(Cardinality(TestFiles), Cardinality(CodeFiles))

\* 0 at no test file, rising in a straight line to 100 at three tenths
TestShareScore ==
    IF RLe(R(3, 10), TestShare) THEN Num(100)
    ELSE Round(RDiv(RMul(Num(1000), TestShare), Num(3)), 2)

\* what C22 says of every call but the value of raw
FileCounts ==
    /\ res.total_files = Cardinality(CodeFiles)
    /\ res.test_files = Cardinality(TestFiles)
    /\ res.test_files <= res.total_files
    /\ CodeFiles = {} => res.raw = Num(0) /\ res.score = Num(0)
    /\ CodeFiles # {} => res.score = TestShareScore

\* C22: compute_test_ratio counts only entries whose path ends in an
\* allow-listed code extension: files without one (.png, .md) and entries
\* with an empty path are left out of both total_files and test_files,
\* test_files <= total_files, raw = test_files / total_files, the score is
\* normalize(raw, 0, 0.3) (three tenths or more give 100), and with no code
\* file the result is raw 0, score 0.
C22_TestRatio ==
    op = "compute_test_ratio" =>
        /\ FileCounts
        /\ CodeFiles # {} => res.raw = TestShare

\* C22, as the code has it: raw is the quotient rounded to four decimals.
C22_TestRatioRounded ==
    op = "compute_test_ratio" =>
        /\ FileCounts
        /\ CodeFiles # {} => res.raw = Round(TestShare, 4)

\* one test file among four code files, beside an image in the tests directory
C22_Witness ==
    /\ op = "compute_test_ratio"
    /\ Cardinality(CodeFiles) = 4
    /\ Len(arg.files) = 5
    /\ res.raw = R(1, 4)
    /\ res.score = R(8333, 100)

\* where the slashes of a path stand
Slashes(path) == {i \in 1..Len(path) : path[i] = "/"}

\* the file name of a path, in lower case: what follows its last slash
FileName(path) ==
    LET from == IF Slashes(path) = {} THEN 1 ELSE GreatestOf(Slashes(path)) + 1
    IN  LowerStr(SubSeq(path, from, Len(path)))

\* the directory names of a path, in lower case: what stands before each slash
Segments(path) ==
    {LowerStr(SubSeq(path, a + 1, b - 1)) :
        <<a, b>> \in {ab \in (Slashes(path) \cup {0}) \X Slashes(path) :
                         /\ ab[1] < ab[2]
                         /\ \A k \in Slashes(path) : ~(ab[1] < k /\ k < ab[2])}}

StartsWith(s, prefix) == Len(s) >= Len(prefix) /\ SubSeq(s, 1, Len(prefix)) = prefix

ScriptExtensions == {<<"j", "s">>, <<"t", "s">>, <<"j", "s", "x">>, <<"t", "s", "x">>}

\* the name patterns of the claim, matched against a lower-case file name
TestFileName(name) ==
    \/ StartsWith(name, <<"t", "e", "s", "t", "_">>) /\ Len(name) >= 8 /\ EndsWith(name, <<".", "p", "y">>)
    \/ EndsWith(name, <<"_", "t", "e", "s", "t", ".", "p", "y">>)
    \/ EndsWith(name, <<"_", "s", "p", "e", "c", ".", "p", "y">>)
    \/ \E e \in ScriptExtensions : EndsWith(name, <<".", "t", "e", "s", "t", ".">> \o e)
    \/ \E e \in ScriptExtensions : EndsWith(name, <<".", "s", "p", "e", "c", ".">> \o e)
    \/ EndsWith(name, <<"t", "e", "s", "t", ".", "j", "a", "v", "a">>)
    \/ EndsWith(name, <<"t", "e", "s", "t", ".", "k", "t">>)
    \/ EndsWith(name, <<"_", "t", "e", "s", "t", ".", "g", "o">>)
    \/ EndsWith(name, <<"_", "t", "e", "s", "t", ".", "r", "b">>)
    \/ EndsWith(name, <<"_", "s", "p", "e", "c", ".", "r", "b">>)

TestDirectories ==
    { <<"t", "e", "s", "t", "s">>,
      <<"t", "e", "s", "t">>,
      <<"_", "_", "t", "e", "s", "t", "s", "_", "_">> }

\* C23: compute_test_ratio classifies a code file as a test file if and only
\* if its file name matches one of the fixed case-insensitive name patterns
\* (test_*.py, *_test.py, *_spec.py, *.test.{js,ts,jsx,tsx},
\* *.spec.{js,ts,jsx,tsx}, *Test.{java,kt}, *_test.go, *_test.rb, *_spec.rb)
\* or one of its directory path segments is tests, test or __tests__; a
\* directory whose name merely ends in 'test' or 'tests' is not such a segment.
C23_TestFileClassification ==
    op = "compute_test_ratio" =>
        \A i \in CodeFiles :
            i \in TestFiles <=>
                \/ TestFileName(FileName(PathAt(i)))
                \/ Segments(PathAt(i)) \cap TestDirectories # {}

-----------------------------------------------------------------------------
(* Claims about the normalizer *)

\* the score of another value over the range and the direction of the call
ScoreOf(v) == _normalize_score(v, arg.min_val, arg.max_val, arg.inverse)

\* C24: for any fixed range [min, max], normalize(v, min, max) is monotonic
\* non-decreasing in v when not inverted and monotonic non-increasing in v
\* when inverted; and normalize(x, a, a, inverse) is 50 for all x and a and
\* for either value of inverse.
C24_NormalizeMonotone ==
    op = "_normalize_score" =>
        /\ arg.min_val = arg.max_val => res = Num(50)
        /\ \A v \in NormalizeValues :
              RLe(arg.value, v) =>
                  IF arg.inverse THEN RLe(ScoreOf(v), res) ELSE RLe(res, ScoreOf(v))

\* an inverted call inside the range: a greater value scores strictly less
C24_Witness ==
    /\ op = "_normalize_score"
    /\ arg.inverse
    /\ RLt(arg.min_val, arg.value)
    /\ RLt(arg.value, arg.max_val)
    /\ RLt(Num(0), res)
    /\ RLt(res, Num(100))
    /\ \E v \in NormalizeValues : RLt(arg.value, v) /\ RLt(ScoreOf(v), res)

-----------------------------------------------------------------------------
(* Claims about shared state *)

\* C25: there is no shared mutable state across calls: after any sequence of
\* calls to calculate_weighted_score, adjust_weights,
\* calculate_improvement_potential and compute_overall_score the module-level
\* DEFAULT_WEIGHTS still maps each of the four metrics to 0.25 and the
\* caller's scores and weights mappings are as they were handed over; the
\* mapping adjust_weights returns is a new object, so that writing into it
\* does not change DEFAULT_WEIGHTS.
C25_NoSharedMutableState ==
    /\ heap.DEFAULT_WEIGHTS = Live([m \in MetricNames |-> R(1, 4)])
    /\ heap.scores = frame.scores
    /\ heap.weights = frame.weights
    /\ frame.fn = "adjust_weights" =>
          frame.returned \notin {"DEFAULT_WEIGHTS", "scores", "weights"}

\* adjust_weights returned the default weights and the caller wrote into them
C25_Witness ==
    /\ frame.fn = "adjust_weights"
    /\ DOMAIN frame.weights.content = {}
    /\ heap[frame.returned].content # DEFAULT_WEIGHTS
    /\ "custom" \in DOMAIN heap[frame.returned].content

-----------------------------------------------------------------------------
(* Claims about the moving average and the regression *)

\* the mean of the values from position max(1, i - window + 1) to position i
WindowMean(i) ==
    LET first == IF i - arg.window + 1 < 1 THEN 1 ELSE i - arg.window + 1
    IN  RDiv(RSum(SubSeq(arg.values, first, i)), Num(i - first + 1))

\* C26: for a non-empty value list and window >= 1 _calculate_moving_average
\* returns a list as long as the input whose element i is the mean of
\* values[max(0, i - window + 1) .. i]: a growing cumulative average for the
\* first window - 1 positions (and for the whole series when it is shorter
\* than the window), a fixed window afterwards; so no entry of the
\* 'moving_average' series of compute_commit_trend or compute_issue_trend is
\* None. For an empty list or window <= 0 it returns an empty list.
C26_MovingAverage ==
    /\ (op = "_calculate_moving_average" /\ arg.values # <<>> /\ arg.window >= 1) =>
          /\ Len(res) = Len(arg.values)
          /\ \A i \in 1..Len(res) : res[i] = WindowMean(i)
    /\ (op = "_calculate_moving_average" /\ (arg.values = <<>> \/ arg.window <= 0)) =>
          res = <<>>
    /\ (op = "compute_commit_trend" /\ ~Raised /\ "daily_values" \in DOMAIN res) =>
          /\ Len(res.moving_average) = Len(res.time_series)
          /\ \A i \in 1..Len(res.moving_average) : res.moving_average[i].ma7 # NoValue
    /\ (op = "compute_issue_trend" /\ ~Raised /\ "resolution_values" \in DOMAIN res) =>
          /\ Len(res.moving_average) = Len(res.resolution_series)
          /\ \A i \in 1..Len(res.moving_average) : res.moving_average[i].ma # NoValue

\* a window of 3 over 5 values: two growing averages, then the fixed window
C26_Witness ==
    /\ op = "_calculate_moving_average"
    /\ arg.window = 3
    /\ Len(arg.values) = MaxValues
    /\ res[2] = RDiv(RAdd(arg.values[1], arg.values[2]), Num(2))
    /\ res[MaxValues] # res[MaxValues - 1]
    /\ res[MaxValues] = RDiv(RSum(SubSeq(arg.values, MaxValues - 2, MaxValues)), Num(3))

\* the sums of the normal equations of the call of the regression
Points == Num(Len(arg.x))
SumX == RSum(arg.x)
SumY == RSum(arg.y)
SumXX == RSum([i \in 1..Len(arg.x) |-> RMul(arg.x[i], arg.x[i])])
SumXY == RSum([i \in 1..Len(arg.x) |-> RMul(arg.x[i], arg.y[i])])

\* the least-squares line through the points: the solution of the normal
\* equations
OlsSlope ==
    RDiv(RSub(RMul(Points, SumXY), RMul(SumX, SumY)),
         RSub(RMul(Points, SumXX), RMul(SumX, SumX)))

OlsIntercept == RDiv(RSub(SumY, RMul(OlsSlope, SumX)), Points)

\* what C27 says of r_squared and of fewer than 2 points
FitInRange ==
    /\ RLe(Num(0), res.r_squared)
    /\ RLe(res.r_squared, Num(1))
    /\ Len(arg.x) < 2 =>
          res = [slope |-> Num(0), intercept |-> Num(0), r_squared |-> Num(0)]

\* C27: for equal-length lists x (day indices 0..n-1) and y (values)
\* _calculate_linear_regression returns an r_squared in [0, 1], and slope and
\* intercept are the ordinary-least-squares fit of y on x (slope = ss_xy /
\* ss_xx, intercept = mean_y - slope * mean_x); for fewer than 2 points it
\* returns slope 0, intercept 0, r_squared 0.
C27_LeastSquaresFit ==
    op = "_calculate_linear_regression" =>
        /\ FitInRange
        /\ Len(arg.x) >= 2 => res.slope = OlsSlope /\ res.intercept = OlsIntercept

\* C27, as the code has it: the slope is returned rounded to six decimals,
\* the intercept to four.
C27_LeastSquaresFitRounded ==
    op = "_calculate_linear_regression" =>
        /\ FitInRange
        /\ Len(arg.x) >= 2 =>
              /\ res.slope \in RoundOutcomes(OlsSlope, 6)
              /\ res.intercept \in RoundOutcomes(OlsIntercept, 4)

\* a long series whose slope has more than six decimals
C27_Witness ==
    /\ op = "_calculate_linear_regression"
    /\ Len(arg.x) = MaxPoints
    /\ res.slope # OlsSlope
    /\ RLt(Num(0), res.r_squared)
    /\ RLt(res.r_squared, Num(1))

\* a series of at least 2 values that are all the same
NoVariation(y) == Len(y) >= 2 /\ \A i \in 1..Len(y) : y[i] = y[1]

\* slope 0 and r_squared 1.0
PerfectFlatFit(regression) ==
    /\ regression.slope = Num(0)
    /\ regression.r_squared = Num(1)
    /\ _get_trend_strength(regression.r_squared) = "guclu"

\* C28: a series with no variation is reported as a perfect fit: when every
\* daily commit count (over at least 2 days) or every resolution time (over
\* at least 2 issues) is the same, the regression has slope 0 and r_squared
\* 1.0, so the trend is classified with direction flat ("sabit") and strength
\* strong ("guclu") rather than inconclusive.
C28_NoVariationPerfectFit ==
    /\ (op = "_calculate_linear_regression" /\ NoVariation(arg.y)) =>
          PerfectFlatFit(res)
    /\ (/\ op = "compute_commit_trend"
        /\ ~Raised
        /\ "daily_values" \in DOMAIN res
        /\ NoVariation(res.daily_values)) =>
          /\ PerfectFlatFit(res.regression)
          /\ res.trend_direction = "sabit"
          /\ res.trend_strength = "guclu"
    /\ (/\ op = "compute_issue_trend"
        /\ ~Raised
        /\ "resolution_values" \in DOMAIN res
        /\ NoVariation(ValuesByClosing)) =>
          /\ PerfectFlatFit(res.regression)
          /\ res.trend_direction = "sabit"
          /\ res.trend_strength = "guclu"

-----------------------------------------------------------------------------
(* Claims about the GitHub client *)

\* the attempts of the request that ended in a timeout
TimedOut == {i \in 1..max_retries : arg.responses[i] = "timeout"}

\* the attempt that ends the request: the first that does not time out, the
\* last one if all do
LastAttempt ==
    IF TimedOut = 1..max_retries THEN max_retries
    ELSE LeastOf((1..max_retries) \ TimedOut)

\* C29: GitHubClient._request always terminates after at most max_retries
\* HTTP attempts: it issues a further attempt only after a timeout and only
\* while attempts remain, returns at once without retrying on any HTTP status
\* (200, 401, 403, 404, other) or non-timeout connection error, returns a
\* non-null error whenever no attempt received status 200, and for
\* max_retries >= 1 never reaches the final 'maximum retries exceeded' return.
C29_RequestRetries ==
    op = "_request" =>
        /\ res.attempts \in 1..max_retries
        /\ \A i \in 1..(res.attempts - 1) : arg.responses[i] = "timeout"
        /\ res.attempts = LastAttempt
        /\ (\A i \in 1..res.attempts : arg.responses[i] # "200") =>
              res.error # "none" /\ res.data = None
        /\ arg.responses[res.attempts] = "200" =>
              res.error = "none" /\ res.data = arg.body
        /\ res.error # "Maksimum deneme sayisi asildi"

\* two timeouts, then an answer: the last attempt allowed is made
C29_Witness ==
    /\ op = "_request"
    /\ arg.responses = <<"timeout", "timeout", "200">>
    /\ res.attempts = max_retries
    /\ res.error = "none"

\* the request for page p ends in an error
PageFails(p) == _request(arg.responses[p], <<>>).error # "none"

\* the items the server holds for page p
PageLength(p) ==
    IF Len(arg.items) >= p * PerPage THEN PerPage
    ELSE IF Len(arg.items) > (p - 1) * PerPage THEN Len(arg.items) - (p - 1) * PerPage
    ELSE 0

\* the first page that is an error, empty or shorter than per_page, or with
\* which max_items items are collected
StopsAt(p) ==
    \/ PageFails(p)
    \/ PageLength(p) < PerPage
    \/ p * PerPage >= arg.max_items

LastPage == LeastOf({p \in 1..PagesServed : StopsAt(p)})

\* the pages received: all those asked for, but a last one that failed
Received == IF PageFails(LastPage) THEN LastPage - 1 ELSE LastPage

\* the items of the first n pages, one after the other
FirstPages(n) ==
    SubSeq(arg.items, 1, IF n * PerPage < Len(arg.items) THEN n * PerPage ELSE Len(arg.items))

\* C30: GitHubClient._paginate terminates for every sequence of server
\* responses and returns at most max_items items: it requests pages 1, 2, 3,
\* ... in order, stops at the first page that is an error, empty, not a list
\* or shorter than per_page, or once max_items items are collected, so it
\* issues at most ceil(max_items / per_page) page requests; the items
\* returned are the concatenation, in page order, of the pages received
\* before it stopped, truncated to max_items, and an error is reported only
\* when no item was collected.
C30_Paginate ==
    op = "_paginate" =>
        /\ Len(res.items) <= arg.max_items
        /\ Len(res.requests) * PerPage < arg.max_items + PerPage
        /\ Len(res.requests) = LastPage
        /\ \A p \in 1..Len(res.requests) : (res.requests[p] # "none") = PageFails(p)
        /\ res.items = Truncate(FirstPages(Received), arg.max_items)
        /\ res.error # "none" => res.items = <<>> /\ Received = 0
        /\ PageFails(1) => res.error # "none"

\* the second page fails after a full first page: the first page is returned
\* and no error is reported
C30_Witness ==
    /\ op = "_paginate"
    /\ Len(res.requests) = 2
    /\ res.requests[2] # "none"
    /\ Len(res.items) = PerPage
    /\ res.error = "none"

=============================================================================
